---- MODULE Spec2Model ----
(***************************************************************************)
(* A model of the cities-pollution API: the in-memory TTL cache            *)
(* (utils/cache), the Wikipedia description service with its rate-limited  *)
(* request queue (services/wikipediaService), the record validator         *)
(* (utils/dataValidator) and the page controller (getCitiesPollution).     *)
(*                                                                         *)
(* JavaScript runs one macrotask at a time and drains the microtask queue  *)
(* before the next one; every action below is one macrotask together with  *)
(* the promise continuations it triggers.  Time is in milliseconds.        *)
(* JavaScript strings are sequences of one-character strings.              *)
(***************************************************************************)
EXTENDS Integers, Sequences, FiniteSets, TLC

\* ---------------------------------------------------------------- bounds
\* Number of getCityDescription calls made by clients of the service.
MaxCalls == 2
\* Number of GET /cities requests.
MaxRequests == 2
\* The latency of an outbound request: it is answered at once or after
\* MaxLatency milliseconds.
MaxLatency == 50
\* Number of calls a client makes on the cache directly.
MaxOps == 3
\* Length of the arrays a client hands to filterValidCities.
MaxRecords == 2
\* The time a client of the cache lets pass between two calls, in
\* milliseconds.
TimeStep == 20
\* Length of the longest extract a summary answer carries.
MaxExtract == 305

\* ------------------------------------------------------ program constants
minRequestInterval == 100
DescriptionTtl == 86400000
NegativeTtl == 3600000
ExtractLimit == 300
SentenceFloor == 200
PageTtl == 600000
DefaultPage == 1
DefaultLimit == 10

\* ------------------------------------------------------ JavaScript values
Null == [t |-> "null", s |-> <<>>]
Undefined == [t |-> "undefined", s |-> <<>>]
Str(s) == [t |-> "str", s |-> s]
\* Numbers are fractions v/scale with scale a power of ten, the least that
\* will do; NaN and the infinities are values of their own.  Dec(tenths) is
\* the number of that many tenths.
Dec(tenths) ==
  IF tenths % 10 = 0 THEN [t |-> "num", v |-> tenths \div 10, scale |-> 1]
  ELSE [t |-> "num", v |-> tenths, scale |-> 10]
NaN == [t |-> "nan", s |-> <<>>]
Infinity == [t |-> "inf", s |-> <<>>]
NegInfinity == [t |-> "inf", s |-> <<"-">>]
True == [t |-> "bool", b |-> TRUE]
False == [t |-> "bool", b |-> FALSE]
\* The number v/scale, scale a power of ten, with the least such scale.
RECURSIVE Normal(_, _)
Normal(v, scale) ==
  IF scale > 1 /\ v % 10 = 0 THEN Normal(v \div 10, scale \div 10)
  ELSE [t |-> "num", v |-> v, scale |-> scale]
\* a < b for two finite numbers
Less(a, b) == a.v * b.scale < b.v * a.scale
\* A whole number, such as a duration in milliseconds.
Num(n) == [t |-> "num", v |-> n, scale |-> 1]

\* JavaScript truthiness of the values the cache and the service handle.
Truthy(v) ==
  CASE v.t = "str" -> v.s # <<>>
    [] v.t = "obj" -> TRUE
    [] OTHER -> FALSE

UpperCase == <<"A","B","C","D","E","F","G","H","I","J","K","L","M",
               "N","O","P","Q","R","S","T","U","V","W","X","Y","Z">>
LowerCase == <<"a","b","c","d","e","f","g","h","i","j","k","l","m",
               "n","o","p","q","r","s","t","u","v","w","x","y","z">>

ToLowerChar(ch) ==
  IF \E i \in 1..Len(UpperCase) : UpperCase[i] = ch
  THEN LowerCase[CHOOSE i \in 1..Len(UpperCase) : UpperCase[i] = ch]
  ELSE ch

\* String.prototype.toLowerCase
toLowerCase(s) == [i \in 1..Len(s) |-> ToLowerChar(s[i])]

IsSpace(ch) == ch \in {" ", "\t", "\n", "\r"}

\* String.prototype.trim
trim(s) ==
  IF \A i \in 1..Len(s) : IsSpace(s[i]) THEN <<>>
  ELSE LET first == CHOOSE i \in 1..Len(s) :
                      /\ ~IsSpace(s[i])
                      /\ \A j \in 1..(i-1) : IsSpace(s[j])
           last == CHOOSE i \in 1..Len(s) :
                      /\ ~IsSpace(s[i])
                      /\ \A j \in (i+1)..Len(s) : IsSpace(s[j])
       IN SubSeq(s, first, last)

\* String.prototype.substring(0, n)
substring0(s, n) == IF n >= Len(s) THEN s ELSE SubSeq(s, 1, n)

\* String.prototype.lastIndexOf(ch), 0-based, -1 when absent
lastIndexOf(s, ch) ==
  IF \E i \in 1..Len(s) : s[i] = ch
  THEN (CHOOSE i \in 1..Len(s) :
          s[i] = ch /\ \A j \in (i+1)..Len(s) : s[j] # ch) - 1
  ELSE -1

\* ------------------------------------------------- JavaScript conversions
\* Numbers are exact decimals here; the texts and numbers of this model have
\* few digits, so that the rounding of floating point and the exponent form
\* of String(x) for very small and very large numbers do not come in.
Digits == <<"0","1","2","3","4","5","6","7","8","9">>
IsDigit(ch) == \E i \in 1..10 : Digits[i] = ch
DigitValue(ch) == (CHOOSE i \in 1..10 : Digits[i] = ch) - 1

\* The value of a sequence of decimal digits.
RECURSIVE DigitsValue(_)
DigitsValue(ds) ==
  IF ds = <<>> THEN 0
  ELSE 10 * DigitsValue(SubSeq(ds, 1, Len(ds) - 1)) + DigitValue(ds[Len(ds)])

\* The length of the longest prefix of s, from place i on, made of digits.
RECURSIVE DigitRun(_, _)
DigitRun(s, i) ==
  IF i <= Len(s) /\ IsDigit(s[i]) THEN 1 + DigitRun(s, i + 1) ELSE 0

\* The number of leading white-space characters of s.
RECURSIVE SpaceRun(_, _)
SpaceRun(s, i) ==
  IF i <= Len(s) /\ IsSpace(s[i]) THEN 1 + SpaceRun(s, i + 1) ELSE 0

\* The exponent part of a decimal literal at place q of s: e or E, an
\* optional sign, digits.  len is its length, 0 when there is none or one
\* without digits, value the exponent.
exponentPart(s, q) ==
  LET signed == q + 1 <= Len(s) /\ s[q + 1] \in {"+", "-"}
      at == IF signed THEN q + 2 ELSE q + 1
      n == DigitRun(s, at)
  IN IF q <= Len(s) /\ s[q] \in {"e", "E"} /\ n > 0
     THEN [len |-> at + n - q,
           value |-> IF s[q + 1] = "-"
                     THEN 0 - DigitsValue(SubSeq(s, at, at + n - 1))
                     ELSE DigitsValue(SubSeq(s, at, at + n - 1))]
     ELSE [len |-> 0, value |-> 0]

\* The longest decimal literal of s that starts at place p: digits, a point
\* with digits, an exponent (StrUnsignedDecimalLiteral without Infinity).
\* len is its length, 0 when there is none; value is its value with the
\* sign, 1 or -1, of the caller, NaN when there is none.
decimalLiteral(s, p, sign) ==
  LET nInt == DigitRun(s, p)
      nFrac == IF p + nInt <= Len(s) /\ s[p + nInt] = "."
               THEN DigitRun(s, p + nInt + 1)
               ELSE 0
      q == IF p + nInt <= Len(s) /\ s[p + nInt] = "."
           THEN p + nInt + 1 + nFrac
           ELSE p + nInt
      e == exponentPart(s, q)
  IN IF nInt + nFrac = 0 THEN [len |-> 0, value |-> NaN]
     ELSE [len |-> q + e.len - p,
           value |-> Normal(sign * DigitsValue(SubSeq(s, p, p + nInt - 1)
                                   \o SubSeq(s, p + nInt + 1, p + nInt + nFrac))
                              * 10^(IF e.value > nFrac THEN e.value - nFrac ELSE 0),
                            10^(IF e.value < nFrac THEN nFrac - e.value ELSE 0))]

\* parseFloat(s) for s a string: leading white space is skipped, then the
\* longest prefix that is a signed decimal literal or Infinity is its value;
\* NaN without one.
parseFloatStr(s) ==
  LET start == SpaceRun(s, 1) + 1
      neg == start <= Len(s) /\ s[start] = "-"
      p == IF start <= Len(s) /\ s[start] \in {"+", "-"} THEN start + 1 ELSE start
  IN IF /\ p + 7 <= Len(s)
        /\ SubSeq(s, p, p + 7) = <<"I","n","f","i","n","i","t","y">>
     THEN IF neg THEN NegInfinity ELSE Infinity
     ELSE decimalLiteral(s, p, IF neg THEN 0 - 1 ELSE 1).value

\* The decimal digits of a natural number.
RECURSIVE NatToString(_)
NatToString(n) ==
  IF n < 10 THEN <<Digits[n + 1]>>
  ELSE NatToString(n \div 10) \o <<Digits[(n % 10) + 1]>>

\* String(x) / `${x}` of the values of this model.  An array is the
\* strings of its elements joined by commas, null and undefined among them
\* as the empty string.
RECURSIVE jsString(_)
jsString(x) ==
  CASE x.t = "str" -> x.s
    [] x.t = "undefined" -> <<"u","n","d","e","f","i","n","e","d">>
    [] x.t = "null" -> <<"n","u","l","l">>
    [] x.t = "nan" -> <<"N","a","N">>
    [] x.t = "inf" -> x.s \o <<"I","n","f","i","n","i","t","y">>
    [] x.t = "bool" -> IF x.b THEN <<"t","r","u","e">> ELSE <<"f","a","l","s","e">>
    [] x.t = "num" ->
         LET a == IF x.v < 0 THEN 0 - x.v ELSE x.v
             sign == IF x.v < 0 THEN <<"-">> ELSE <<>>
         IN sign \o NatToString(a \div x.scale)
              \o (IF x.scale = 1 THEN <<>>
                  ELSE <<".">> \o Tail(NatToString(x.scale + (a % x.scale))))
    [] x.t = "array" ->
         IF x.items = <<>> THEN <<>>
         ELSE (IF Head(x.items).t \in {"null", "undefined"} THEN <<>>
               ELSE jsString(Head(x.items)))
              \o (IF Len(x.items) = 1 THEN <<>>
                  ELSE <<",">> \o jsString([x EXCEPT !.items = Tail(@)]))
    [] x.t = "obj" ->
         <<"[","o","b","j","e","c","t"," ","O","b","j","e","c","t","]">>

\* parseFloat(x): the argument is converted to a string first.
parseFloat(x) == parseFloatStr(jsString(x))

\* The value of the digits ds in the radix 16, 8 or 2; NaN when one of
\* them is no digit of the radix.
RECURSIVE RadixValue(_, _)
RadixValue(ds, radix) ==
  LET hex == <<"0","1","2","3","4","5","6","7","8","9","a","b","c","d","e","f">>
      places == {i \in 1..radix : hex[i] = ToLowerChar(ds[Len(ds)])}
      front == IF Len(ds) = 1 THEN Normal(0, 1)
               ELSE RadixValue(SubSeq(ds, 1, Len(ds) - 1), radix)
  IN IF places = {} \/ front.t # "num" THEN NaN
     ELSE Normal(radix * front.v + (CHOOSE i \in places : TRUE) - 1, 1)

\* Number(s) for a string (StringToNumber), s being the string without the
\* white space around it: the empty string is 0; s has to be, as a whole,
\* a signed decimal literal, a signed Infinity, or 0x, 0o, 0b with digits
\* of that radix.
StringToNumber(s) ==
  LET neg == s # <<>> /\ s[1] = "-"
      p == IF s # <<>> /\ s[1] \in {"+", "-"} THEN 2 ELSE 1
      lit == decimalLiteral(s, p, IF neg THEN 0 - 1 ELSE 1)
      radix == IF Len(s) > 2 /\ s[1] = "0"
               THEN CASE s[2] \in {"x", "X"} -> 16
                      [] s[2] \in {"o", "O"} -> 8
                      [] s[2] \in {"b", "B"} -> 2
                      [] OTHER -> 0
               ELSE 0
  IN IF s = <<>> THEN Normal(0, 1)
     ELSE IF radix # 0 THEN RadixValue(SubSeq(s, 3, Len(s)), radix)
     ELSE IF SubSeq(s, p, Len(s)) = <<"I","n","f","i","n","i","t","y">>
          THEN IF neg THEN NegInfinity ELSE Infinity
     ELSE IF lit.len = 0 \/ p + lit.len - 1 # Len(s) THEN NaN
     ELSE lit.value

\* Number(x), as isNaN, isFinite, the comparisons and setTimeout coerce
\* their operand; an array goes through its string.
ToNumber(x) ==
  CASE x.t \in {"num", "nan", "inf"} -> x
    [] x.t = "bool" -> IF x.b THEN Normal(1, 1) ELSE Normal(0, 1)
    [] x.t = "null" -> Normal(0, 1)
    [] x.t \in {"str", "array"} -> StringToNumber(trim(jsString(x)))
    [] OTHER -> NaN

\* a > b for two numbers; false when one of them is NaN.
Greater(a, b) ==
  \/ a.t = "num" /\ b.t = "num" /\ Less(b, a)
  \/ a = Infinity /\ (b.t = "num" \/ b = NegInfinity)
  \/ a.t = "num" /\ b = NegInfinity

\* JavaScript truthiness of a field of a record.
TruthyValue(x) ==
  CASE x.t = "str" -> x.s # <<>>
    [] x.t = "num" -> x.v # 0
    [] x.t = "bool" -> x.b
    [] x.t \in {"obj", "array", "inf"} -> TRUE
    [] OTHER -> FALSE

\* ------------------------------------------------------------ the inputs
Oslo == <<"O","s","l","o">>
Rome == <<"R","o","m","e">>
Norway == <<"N","O">>
CityNames == {Oslo, <<"O","S","L","O">>, Rome}
CountryNames == {Norway}

TextA == <<"A"," ","c","i","t","y",".">>
TextBlank == <<" ">>
\* What the summary endpoint can answer: HTTP status (0: no response at all,
\* a timeout or a network error) and the extract field of the body.
Responses ==
  {[status |-> 200, extract |-> Str(TextA)],
   [status |-> 200, extract |-> Str(TextBlank)],
   [status |-> 200, extract |-> Undefined],
   [status |-> 404, extract |-> Undefined],
   [status |-> 500, extract |-> Undefined],
   [status |-> 0, extract |-> Undefined]}

\* The entries the pollution source can send.
Berlin == <<"B","e","r","l","i","n">>
Germany == <<"G","e","r","m","a","n","y">>
Entry(name, country, pollution) ==
  [t |-> "obj", name |-> name, country |-> country, pollution |-> pollution]
EntryBerlin == Entry(Str(Berlin), Str(Germany), Str(<<"5","1",".","3">>))
EntryDigits == Entry(Str(<<"1","2","3","4","5">>), Str(<<"X","X">>), Dec(100))
EntryTest == Entry(Str(<<"T","e","s","t">>), Str(<<"U","S">>), Dec(50))
EntryOslo == Entry(Str(<<" ","O","s","l","o"," ">>), Str(Norway), Dec(1000))
EntryRome == Entry(Str(Rome), Undefined, Dec(513))
Arr(items) == [t |-> "array", items |-> items]
ResultLists ==
  {<<>>,
   <<EntryBerlin, EntryDigits, EntryTest>>,
   <<EntryBerlin, EntryOslo, EntryRome>>}
\* What the pollution source can answer to GET /pollution.
PollutionAnswers ==
  {[ok |-> TRUE, data |-> [t |-> "obj", results |-> Arr(R)]] : R \in ResultLists}
    \cup {[ok |-> TRUE, data |-> [t |-> "obj", results |-> Undefined]],
          [ok |-> TRUE, data |-> Arr(<<EntryBerlin>>)],
          [ok |-> TRUE, data |-> Null],
          [ok |-> FALSE, data |-> Undefined]}
\* What it can answer to the login request.
LoginAnswers ==
  {[ok |-> TRUE, token |-> Str(<<"t","k">>)],
   [ok |-> TRUE, token |-> Undefined],
   [ok |-> FALSE, token |-> Undefined]}
\* The query parameters of a GET /cities request.
Queries ==
  [page : {Undefined, Str(<<"1">>), Str(<<"2">>)},
   limit : {Undefined, Str(<<"2">>)},
   country : {Undefined, Str(Norway)}]
VARIABLES
  cache,        \* MemoryCache.cache: key -> value, the domain is the key set
  timers,       \* MemoryCache.timers: key -> id of the key's timeout
  scheduled,    \* the runtime's pending timeouts of the cache: [id, key, left]
  nextTimer,    \* the id the next setTimeout of the cache returns
  requestQueue, \* WikipediaService.requestQueue
  isProcessing, \* WikipediaService.isProcessing
  loops,        \* the running invocations of _processQueue past line 97
  calls,        \* the getCityDescription calls made so far
  ago,          \* time since the last outbound request was sent (capped)
  enqueued,     \* history: the lookups pushed on the queue, in order
  dispatched,   \* history: the outbound requests, in order, with their gap
  written,      \* history: key -> the last cache.set of the key and its age
  pages,        \* the GET /cities requests handled so far
  token,        \* PollutionService.token
  sent,         \* history: the requests sent to the pollution source
  filtered,     \* history: the arguments of the filterValidCities calls
  ops,          \* history: the calls made on the cache directly, with results
  validated,    \* the last call made on the validator directly, with result
  summarized    \* the answer of a summary request settled on its own

vars == <<cache, timers, scheduled, nextTimer, requestQueue, isProcessing,
          loops, calls, ago, enqueued, dispatched, written, pages, token,
          sent, filtered, ops, validated, summarized>>

\* The whole state as one record, so that the methods below compose the way
\* the calls in the source nest.
Cur ==
  [cache |-> cache, timers |-> timers, scheduled |-> scheduled,
   nextTimer |-> nextTimer, requestQueue |-> requestQueue,
   isProcessing |-> isProcessing, loops |-> loops, calls |-> calls,
   ago |-> ago, enqueued |-> enqueued, dispatched |-> dispatched,
   written |-> written, pages |-> pages, token |-> token, sent |-> sent,
   filtered |-> filtered, ops |-> ops, validated |-> validated,
   summarized |-> summarized]

Commit(S) ==
  /\ cache' = S.cache
  /\ timers' = S.timers
  /\ scheduled' = S.scheduled
  /\ nextTimer' = S.nextTimer
  /\ requestQueue' = S.requestQueue
  /\ isProcessing' = S.isProcessing
  /\ loops' = S.loops
  /\ calls' = S.calls
  /\ ago' = S.ago
  /\ enqueued' = S.enqueued
  /\ dispatched' = S.dispatched
  /\ written' = S.written
  /\ pages' = S.pages
  /\ token' = S.token
  /\ sent' = S.sent
  /\ filtered' = S.filtered
  /\ ops' = S.ops
  /\ validated' = S.validated
  /\ summarized' = S.summarized

\* ------------------------------------------------------------ MemoryCache
MapSet(m, key, value) ==
  [k \in DOMAIN m \cup {key} |-> IF k = key THEN value ELSE m[k]]
MapDelete(m, key) == [k \in DOMAIN m \ {key} |-> m[k]]

\* this.timers.delete(key) without the clearTimeout before it.
clearTimer_KeepScheduled(S, key) ==
  [S EXCEPT !.timers = MapDelete(@, key)]

\* clearTimeout(this.timers.get(key)); this.timers.delete(key)
clearTimer(S, key) ==
  IF key \in DOMAIN S.timers
  THEN [S EXCEPT !.scheduled = {tm \in @ : tm.id # S.timers[key]},
                 !.timers = MapDelete(@, key)]
  ELSE S

\* `if (ttl && ttl > 0)`: ttl is truthy and, as a number, above 0
ttlGiven(ttl) == TruthyValue(ttl) /\ Greater(ToNumber(ttl), Normal(0, 1))

\* The longest delay setTimeout takes, 2^31 - 1 milliseconds; it is the
\* largest integer of the model checker as well.
TimeoutMax == 2147483647

\* The number 2^31: TimeoutMax and the part above it.
TooLong == [t |-> "num", v |-> TimeoutMax, scale |-> 1, above |-> 1]

\* The part of a number above TimeoutMax.
Above(n) == IF "above" \in DOMAIN n THEN n.above ELSE 0

\* setTimeout(callback, ms): the delay the runtime gives the timeout. The
\* delay is made a number, after; one that is not from 1 to TimeoutMax is
\* replaced by 1, and the timer list takes its whole part.
timerDelay(ms) ==
  CHOOSE delay \in
    {IF after.t = "num" /\ ~Less(after, Normal(1, 1)) /\ Above(after) = 0
     THEN after.v \div after.scale
     ELSE 1 : after \in {ToNumber(ms)}} : TRUE

cacheSet_KeepTimer(S, key, value, ttl) ==
  LET S2 == [S EXCEPT !.cache = MapSet(@, key, value),
                      !.written = MapSet(@, key, [value |-> value, ttl |-> ttl,
                                                  age |-> 0])]
  IN IF ttlGiven(ttl)
     THEN [S2 EXCEPT !.scheduled = @ \cup {[id |-> S2.nextTimer, key |-> key,
                                            left |-> timerDelay(ttl)]},
                     !.timers = MapSet(@, key, S2.nextTimer),
                     !.nextTimer = @ + 1]
     ELSE S2

\* set(key, value, ttl = null)
cacheSet(S, key, value, ttl) ==
  LET S1 == clearTimer(S, key)
      S2 == [S1 EXCEPT !.cache = MapSet(@, key, value),
                       !.written = MapSet(@, key, [value |-> value, ttl |-> ttl,
                                                   age |-> 0])]
  IN IF ttlGiven(ttl)
     THEN [S2 EXCEPT !.scheduled = @ \cup {[id |-> S2.nextTimer, key |-> key,
                                            left |-> timerDelay(ttl)]},
                     !.timers = MapSet(@, key, S2.nextTimer),
                     !.nextTimer = @ + 1]
     ELSE S2

\* get(key): Map.prototype.get
cacheGet(S, key) == IF key \in DOMAIN S.cache THEN S.cache[key] ELSE Undefined

\* has(key)
cacheHas(S, key) == key \in DOMAIN S.cache

\* delete(key) without the clearTimeout of lines 59-62.
cacheDelete_KeepTimer(S, key) ==
  [S EXCEPT !.cache = MapDelete(@, key), !.timers = MapDelete(@, key)]

\* delete(key): the state it leaves; it returns cacheHas(S, key)
cacheDelete(S, key) ==
  LET S1 == clearTimer(S, key)
  IN [S1 EXCEPT !.cache = MapDelete(@, key)]

\* clear() that empties the maps and leaves the timeouts pending.
cacheClear_KeepTimers(S) == [S EXCEPT !.timers = <<>>, !.cache = <<>>]

\* clear()
cacheClear(S) ==
  [S EXCEPT !.scheduled = {tm \in @ : \A k \in DOMAIN S.timers : S.timers[k] # tm.id},
            !.timers = <<>>,
            !.cache = <<>>]

\* `return this.cache.delete(key)`, line 64: whether the key was there.
cacheDeleteResult(S, key) == IF key \in DOMAIN S.cache THEN True ELSE False

\* stats(): the size and the keys of the map (the keys as a set).
cacheStats(S) ==
  [t |-> "obj", size |-> Cardinality(DOMAIN S.cache), keys |-> DOMAIN S.cache]

\* The keys, values and TTLs of the calls a client makes on the cache; among
\* the TTLs are two that are no numbers.
CacheKeys == {<<"k">>, <<"j">>}
CacheValues == {Str(<<"a">>), Null}
CacheTtls ==
  {Null, Num(0), Num(0 - 1), Num(50), TooLong, Infinity, True, Str(<<"5","0">>)}

\* A call made on the cache, as the history keeps it.
CacheCall(op, key, value, ttl, ret) ==
  [op |-> op, key |-> key, value |-> value, ttl |-> ttl, ret |-> ret]

\* A client's cache.set(key, value, ttl)
callSet(S, key, value, ttl) ==
  [cacheSet(S, key, value, ttl)
     EXCEPT !.ops = Append(@, CacheCall("set", key, value, ttl, Undefined))]

\* A get that renews the expiration of the key it reads.
callGet_Sliding(S, key) ==
  LET S1 == IF key \in DOMAIN S.cache
            THEN cacheSet(S, key, S.cache[key], S.written[key].ttl)
            ELSE S
  IN [S1 EXCEPT !.ops = Append(@, CacheCall("get", key, Undefined, Undefined,
                                            cacheGet(S, key)))]

\* A client's cache.get(key)
callGet(S, key) ==
  [S EXCEPT !.ops = Append(@, CacheCall("get", key, Undefined, Undefined,
                                        cacheGet(S, key)))]

\* A client's cache.has(key)
callHas(S, key) ==
  [S EXCEPT !.ops = Append(@, CacheCall("has", key, Undefined, Undefined,
                              IF cacheHas(S, key) THEN True ELSE False))]

\* A client's cache.delete(key)
callDelete(S, key) ==
  [cacheDelete(S, key)
     EXCEPT !.ops = Append(@, CacheCall("delete", key, Undefined, Undefined,
                                        cacheDeleteResult(S, key)))]

\* A client's cache.clear()
callClear(S) ==
  [cacheClear(S)
     EXCEPT !.ops = Append(@, CacheCall("clear", <<>>, Undefined, Undefined,
                                        Undefined))]

\* A client's cache.stats()
callStats(S) ==
  [S EXCEPT !.ops = Append(@, CacheCall("stats", <<>>, Undefined, Undefined,
                                        cacheStats(S)))]

\* ------------------------------------------------------- WikipediaService
NoItem == [title |-> <<>>, call |-> 0, idx |-> 0]

\* `wiki_${cityName}_${countryName}`.toLowerCase()
describeKey(cityName, countryName) ==
  toLowerCase(<<"w","i","k","i","_">> \o cityName \o <<"_">> \o countryName)

\* The search terms of line 44, in their order.
searchTerms(cityName, countryName) ==
  << cityName,
     cityName \o <<",", " ">> \o countryName,
     cityName \o <<" ">> \o countryName >>

isCacheHit_Never(cachedDescription) == FALSE

\* `if (cachedDescription)`, line 37
isCacheHit(cachedDescription) == Truthy(cachedDescription)

isFound_Never(description) == FALSE

\* `if (description)`, line 53
isFound(description) == Truthy(description)

mayStartDraining_NoFlag(processing, queue) == Len(queue) # 0

\* The guard of _processQueue, line 93, negated: the call goes on to drain.
mayStartDraining(processing, queue) == ~(processing \/ Len(queue) = 0)

queuePop(queue) ==
  [item |-> queue[Len(queue)], rest |-> SubSeq(queue, 1, Len(queue) - 1)]

\* requestQueue.shift(): the item taken and the queue left.
queueShift(queue) == [item |-> Head(queue), rest |-> Tail(queue)]

delay_None(ms) == 0

\* _delay(ms): the time after which its timeout fires.
delay(ms) == ms

\* The extract cut at the last period before the sentence floor.
cleanExtract_BelowFloor(text) ==
  LET e0 == trim(text)
  IN IF Len(e0) > ExtractLimit
     THEN LET e1 == trim(substring0(e0, ExtractLimit))
              lastPeriod == lastIndexOf(substring0(e1, SentenceFloor), ".")
          IN IF lastPeriod >= 0
             THEN substring0(e1, lastPeriod + 1)
             ELSE e1 \o <<".", ".", ".">>
     ELSE e0

\* Lines 106-122: what the lookup's promise is resolved with for a 2xx answer.
cleanExtract(text) ==
  LET e0 == trim(text)
  IN IF Len(e0) > ExtractLimit
     THEN LET e1 == trim(substring0(e0, ExtractLimit))
              lastPeriod == lastIndexOf(e1, ".")
          IN IF lastPeriod > SentenceFloor
             THEN substring0(e1, lastPeriod + 1)
             ELSE e1 \o <<".", ".", ".">>
     ELSE e0

\* Lines 102-129: how the promise of the lookup is settled for an answer.
\* axios throws for a status outside 2xx and when there is no response.
settlement(resp) ==
  IF resp.status = 200
  THEN IF Truthy(resp.extract)
       THEN [how |-> "resolve", value |-> Str(cleanExtract(resp.extract.s))]
       ELSE [how |-> "resolve", value |-> Null]
  ELSE IF resp.status = 404
       THEN [how |-> "resolve", value |-> Null]
       ELSE [how |-> "reject", value |-> Undefined]

RemoveAt(seq, i) == SubSeq(seq, 1, i - 1) \o SubSeq(seq, i + 1, Len(seq))

\* The loop that ends without line 135: the flag stays set.
loopTest_FlagStuck(S, i) ==
  IF Len(S.requestQueue) > 0
  THEN LET sh == queueShift(S.requestQueue)
       IN [S EXCEPT !.requestQueue = sh.rest,
                    !.loops[i] = [st |-> "inflight", item |-> sh.item, left |-> 0],
                    !.dispatched = Append(@, [call |-> sh.item.call,
                                              idx |-> sh.item.idx,
                                              title |-> sh.item.title,
                                              fresh |-> S.loops[i].st = "start",
                                              gap |-> S.ago]),
                    !.ago = 0]
  ELSE [S EXCEPT !.loops = RemoveAt(@, i)]

\* The loop of _processQueue from its test on line 99 to the await on line
\* 104 (the request is sent), or to line 135 when the queue is empty.
\* i is the invocation's place in loops.
loopTest(S, i) ==
  IF Len(S.requestQueue) > 0
  THEN LET sh == queueShift(S.requestQueue)
       IN [S EXCEPT !.requestQueue = sh.rest,
                    !.loops[i] = [st |-> "inflight", item |-> sh.item, left |-> 0],
                    !.dispatched = Append(@, [call |-> sh.item.call,
                                              idx |-> sh.item.idx,
                                              title |-> sh.item.title,
                                              fresh |-> S.loops[i].st = "start",
                                              gap |-> S.ago]),
                    !.ago = 0]
  ELSE [S EXCEPT !.isProcessing = FALSE,
                 !.loops = RemoveAt(@, i)]

\* _processQueue(), up to its first await.
processQueue(S) ==
  IF mayStartDraining(S.isProcessing, S.requestQueue)
  THEN loopTest([S EXCEPT !.isProcessing = TRUE,
                          !.loops = Append(@, [st |-> "start", item |-> NoItem,
                                               left |-> 0])],
                Len(S.loops) + 1)
  ELSE S

\* _fetchDescriptionByTitle(title) for variant idx of call c, up to the
\* return of the promise.
fetchDescriptionByTitle(S, c, idx, title) ==
  LET item == [title |-> title, call |-> c, idx |-> idx]
  IN processQueue([S EXCEPT !.requestQueue = Append(@, item),
                            !.enqueued = Append(@, item)])

\* getCityDescription from the top of its for loop (line 50) with the
\* variant idx next: the lookup of the variant is queued and the call awaits
\* it, or the terms are exhausted and the negative result is cached.
tryTerm(S, c, idx) ==
  LET call == S.calls[c]
      terms == searchTerms(call.city, call.country)
  IN IF idx <= Len(terms)
     THEN fetchDescriptionByTitle(
            [S EXCEPT !.calls[c].pc = "waiting", !.calls[c].idx = idx],
            c, idx, terms[idx])
     ELSE [cacheSet(S, call.key, Null, Num(NegativeTtl))
             EXCEPT !.calls[c].pc = "done", !.calls[c].result = Null]

onLookupError_Abandon(S, c) ==
  [S EXCEPT !.calls[c].pc = "done", !.calls[c].result = Null]

\* The inner catch, lines 59-62: the failure is logged and the for loop
\* continues with the next search term.
onLookupError(S, c) == tryTerm(S, c, S.calls[c].idx + 1)

\* What a settlement brought, for the history kept in calls[c].outs.
outcomeOf(settle) ==
  IF settle.how = "reject" THEN "reject"
  ELSE IF Truthy(settle.value) THEN "found" ELSE "empty"

\* getCityDescription resumed in call c when the awaited lookup is settled
\* (lines 52-62).
resumeCall(S, c, settle) ==
  LET S1 == [S EXCEPT !.calls[c].outs = Append(@, outcomeOf(settle))]
  IN IF settle.how = "reject"
     THEN onLookupError(S1, c)
     ELSE IF isFound(settle.value)
          THEN [cacheSet(S1, S.calls[c].key, settle.value, Num(DescriptionTtl))
                  EXCEPT !.calls[c].pc = "done", !.calls[c].result = settle.value]
          ELSE tryTerm(S1, c, S.calls[c].idx + 1)

\* getCityDescription(cityName, countryName), up to its return or its
\* first await.
getCityDescription(S, cityName, countryName) ==
  LET c == Len(S.calls) + 1
      key == describeKey(cityName, countryName)
      cachedDescription == cacheGet(S, key)
      call == [city |-> cityName, country |-> countryName, key |-> key,
               pc |-> "start", idx |-> 0, result |-> Undefined, outs |-> <<>>,
               owner |-> 0,
               hadEntry |-> cacheHas(S, key), cached |-> cachedDescription,
               live |-> {d \in 1..Len(S.calls) : S.calls[d].pc # "done"}]
      S1 == [S EXCEPT !.calls = Append(@, call)]
  IN IF isCacheHit(cachedDescription)
     THEN [S1 EXCEPT !.calls[c].pc = "done",
                     !.calls[c].result = cachedDescription]
     ELSE tryTerm(S1, c, 1)

\* ---------------------------------------------------------- DataValidator

IsLetter(ch) ==
  \/ \E i \in 1..26 : UpperCase[i] = ch
  \/ \E i \in 1..26 : LowerCase[i] = ch

\* Whether pattern p occurs in s at place i.
OccursAt(s, p, i) == i >= 1 /\ i + Len(p) - 1 <= Len(s) /\ SubSeq(s, i, i + Len(p) - 1) = p
\* String.prototype.includes
includes(s, p) == \E i \in 1..(Len(s) + 1) : OccursAt(s, p, i)
EndsWith(s, p) == OccursAt(s, p, Len(s) - Len(p) + 1)

TestWords == {<<"t","e","s","t">>, <<"s","a","m","p","l","e">>,
              <<"d","u","m","m","y">>, <<"f","a","k","e">>}
NullWords == {<<"n","/","a">>, <<"n","u","l","l">>,
              <<"u","n","d","e","f","i","n","e","d">>}
BracketChars == {"<", ">", "{", "}", "[", "]", "(", ")"}
DivisionWords == {<<"r","e","g","i","o","n">>, <<"p","r","o","v","i","n","c","e">>,
                  <<"s","t","a","t","e">>, <<"c","o","u","n","t","y">>,
                  <<"d","i","s","t","r","i","c","t">>}

\* this.invalidPatterns, lines 9-17: whether one of them matches s.
matchesInvalidPattern(s) ==
  \/ s # <<>> /\ \A i \in 1..Len(s) : IsDigit(s[i])
  \/ \A i \in 1..Len(s) : ~IsLetter(s[i])
  \/ \A i \in 1..Len(s) : IsSpace(s[i])
  \/ toLowerCase(s) \in TestWords
  \/ toLowerCase(s) \in NullWords
  \/ s # <<>> /\ \A i \in 1..Len(s) : s[i] \in BracketChars
  \/ \E w \in DivisionWords : EndsWith(toLowerCase(s), w)

\* this.suspiciousWords, lines 20-24
suspiciousWords ==
  {<<"o","c","e","a","n">>, <<"s","e","a">>, <<"r","i","v","e","r">>,
   <<"l","a","k","e">>, <<"m","o","u","n","t","a","i","n">>,
   <<"d","e","s","e","r","t">>, <<"f","o","r","e","s","t">>,
   <<"a","i","r","p","o","r","t">>, <<"s","t","a","t","i","o","n">>,
   <<"p","o","r","t">>, <<"b","a","s","e">>,
   <<"f","a","c","i","l","i","t","y">>, <<"r","e","g","i","o","n">>,
   <<"a","r","e","a">>, <<"z","o","n","e">>, <<"s","e","c","t","o","r">>,
   <<"d","i","s","t","r","i","c","t">>}

Count(s, P(_)) == Cardinality({i \in 1..Len(s) : P(s[i])})

\* isValidCityName(name), lines 114-157
isValidCityName(name) ==
  /\ name.t = "str"
  /\ LET trimmedName == trim(name.s)
         lowerName == toLowerCase(trimmedName)
     IN /\ ~(Len(trimmedName) < 1 \/ Len(trimmedName) > 100)
        /\ ~matchesInvalidPattern(trimmedName)
        /\ ~\E word \in suspiciousWords :
              /\ includes(lowerName, word)
              /\ \A i \in 1..Len(trimmedName) : ~IsSpace(trimmedName[i])
        /\ \E i \in 1..Len(trimmedName) : IsLetter(trimmedName[i])
        /\ ~(Count(trimmedName, IsDigit) > Count(trimmedName, IsLetter))

\* this.validCountryCodes, lines 27-49
validCountryCodes ==
  {<<"A","D">>, <<"A","E">>, <<"A","F">>, <<"A","G">>, <<"A","I">>, <<"A","L">>,
   <<"A","M">>, <<"A","O">>, <<"A","Q">>, <<"A","R">>, <<"A","S">>, <<"A","T">>,
   <<"A","U">>, <<"A","W">>, <<"A","X">>, <<"A","Z">>, <<"B","A">>, <<"B","B">>,
   <<"B","D">>, <<"B","E">>, <<"B","F">>, <<"B","G">>, <<"B","H">>, <<"B","I">>,
   <<"B","J">>, <<"B","L">>, <<"B","M">>, <<"B","N">>, <<"B","O">>, <<"B","Q">>,
   <<"B","R">>, <<"B","S">>, <<"B","T">>, <<"B","V">>, <<"B","W">>, <<"B","Y">>,
   <<"B","Z">>, <<"C","A">>, <<"C","C">>, <<"C","D">>, <<"C","F">>, <<"C","G">>,
   <<"C","H">>, <<"C","I">>, <<"C","K">>, <<"C","L">>, <<"C","M">>, <<"C","N">>,
   <<"C","O">>, <<"C","R">>, <<"C","U">>, <<"C","V">>, <<"C","W">>, <<"C","X">>,
   <<"C","Y">>, <<"C","Z">>, <<"D","E">>, <<"D","J">>, <<"D","K">>, <<"D","M">>,
   <<"D","O">>, <<"D","Z">>, <<"E","C">>, <<"E","E">>, <<"E","G">>, <<"E","H">>,
   <<"E","R">>, <<"E","S">>, <<"E","T">>, <<"F","I">>, <<"F","J">>, <<"F","K">>,
   <<"F","M">>, <<"F","O">>, <<"F","R">>, <<"G","A">>, <<"G","B">>, <<"G","D">>,
   <<"G","E">>, <<"G","F">>, <<"G","G">>, <<"G","H">>, <<"G","I">>, <<"G","L">>,
   <<"G","M">>, <<"G","N">>, <<"G","P">>, <<"G","Q">>, <<"G","R">>, <<"G","S">>,
   <<"G","T">>, <<"G","U">>, <<"G","W">>, <<"G","Y">>, <<"H","K">>, <<"H","M">>,
   <<"H","N">>, <<"H","R">>, <<"H","T">>, <<"H","U">>, <<"I","D">>, <<"I","E">>,
   <<"I","L">>, <<"I","M">>, <<"I","N">>, <<"I","O">>, <<"I","Q">>, <<"I","R">>,
   <<"I","S">>, <<"I","T">>, <<"J","E">>, <<"J","M">>, <<"J","O">>, <<"J","P">>,
   <<"K","E">>, <<"K","G">>, <<"K","H">>, <<"K","I">>, <<"K","M">>, <<"K","N">>,
   <<"K","P">>, <<"K","R">>, <<"K","W">>, <<"K","Y">>, <<"K","Z">>, <<"L","A">>,
   <<"L","B">>, <<"L","C">>, <<"L","I">>, <<"L","K">>, <<"L","R">>, <<"L","S">>,
   <<"L","T">>, <<"L","U">>, <<"L","V">>, <<"L","Y">>, <<"M","A">>, <<"M","C">>,
   <<"M","D">>, <<"M","E">>, <<"M","F">>, <<"M","G">>, <<"M","H">>, <<"M","K">>,
   <<"M","L">>, <<"M","M">>, <<"M","N">>, <<"M","O">>, <<"M","P">>, <<"M","Q">>,
   <<"M","R">>, <<"M","S">>, <<"M","T">>, <<"M","U">>, <<"M","V">>, <<"M","W">>,
   <<"M","X">>, <<"M","Y">>, <<"M","Z">>, <<"N","A">>, <<"N","C">>, <<"N","E">>,
   <<"N","F">>, <<"N","G">>, <<"N","I">>, <<"N","L">>, <<"N","O">>, <<"N","P">>,
   <<"N","R">>, <<"N","U">>, <<"N","Z">>, <<"O","M">>, <<"P","A">>, <<"P","E">>,
   <<"P","F">>, <<"P","G">>, <<"P","H">>, <<"P","K">>, <<"P","L">>, <<"P","M">>,
   <<"P","N">>, <<"P","R">>, <<"P","S">>, <<"P","T">>, <<"P","W">>, <<"P","Y">>,
   <<"Q","A">>, <<"R","E">>, <<"R","O">>, <<"R","S">>, <<"R","U">>, <<"R","W">>,
   <<"S","A">>, <<"S","B">>, <<"S","C">>, <<"S","D">>, <<"S","E">>, <<"S","G">>,
   <<"S","H">>, <<"S","I">>, <<"S","J">>, <<"S","K">>, <<"S","L">>, <<"S","M">>,
   <<"S","N">>, <<"S","O">>, <<"S","R">>, <<"S","S">>, <<"S","T">>, <<"S","V">>,
   <<"S","X">>, <<"S","Y">>, <<"S","Z">>, <<"T","C">>, <<"T","D">>, <<"T","F">>,
   <<"T","G">>, <<"T","H">>, <<"T","J">>, <<"T","K">>, <<"T","L">>, <<"T","M">>,
   <<"T","N">>, <<"T","O">>, <<"T","R">>, <<"T","T">>, <<"T","V">>, <<"T","W">>,
   <<"T","Z">>, <<"U","A">>, <<"U","G">>, <<"U","M">>, <<"U","S">>, <<"U","Y">>,
   <<"U","Z">>, <<"V","A">>, <<"V","C">>, <<"V","E">>, <<"V","G">>, <<"V","I">>,
   <<"V","N">>, <<"V","U">>, <<"W","F">>, <<"W","S">>, <<"Y","E">>, <<"Y","T">>,
   <<"Z","A">>, <<"Z","M">>, <<"Z","W">>}

IsUpper(ch) == \E i \in 1..26 : UpperCase[i] = ch

\* isValidCountry(country), lines 164-194
isValidCountry(country) ==
  /\ country.t = "str"
  /\ LET trimmedCountry == trim(country.s)
     IN /\ ~(Len(trimmedCountry) < 2 \/ Len(trimmedCountry) > 100)
        /\ ~matchesInvalidPattern(trimmedCountry)
        /\ IF /\ Len(trimmedCountry) = 2
              /\ \A i \in 1..2 : IsUpper(trimmedCountry[i])
           THEN trimmedCountry \in validCountryCodes
           ELSE \E i \in 1..Len(trimmedCountry) : IsLetter(trimmedCountry[i])

\* isValidPollutionValue with the bounds 0 and 1000 left out of the range.
isValidPollutionValue_OpenRange(pollution) ==
  LET numericValue == IF pollution.t = "str" THEN parseFloatStr(pollution.s)
                      ELSE pollution
      n == ToNumber(numericValue)
  IN /\ n.t = "num"
     /\ ~(~Less(Normal(0, 1), n) \/ ~Less(n, Normal(1000, 1)))

\* isValidPollutionValue(pollution), lines 201-216
isValidPollutionValue(pollution) ==
  LET numericValue == IF pollution.t = "str" THEN parseFloatStr(pollution.s)
                      ELSE pollution
      n == ToNumber(numericValue)
  IN /\ n.t = "num"
     /\ ~(Less(n, Normal(0, 1)) \/ Less(Normal(1000, 1), n))

\* isValidCity with the country as one more gate.
isValidCity_CountryGate(entry) ==
  /\ entry.t = "obj"
  /\ ~(~TruthyValue(entry.name) \/ entry.pollution = Undefined
         \/ entry.pollution = Null)
  /\ isValidCityName(entry.name)
  /\ isValidCountry(entry.country)
  /\ isValidPollutionValue(entry.pollution)

\* isValidCity(entry), lines 84-107
isValidCity(entry) ==
  /\ entry.t = "obj"
  /\ ~(~TruthyValue(entry.name) \/ entry.pollution = Undefined
         \/ entry.pollution = Null)
  /\ isValidCityName(entry.name)
  /\ isValidPollutionValue(entry.pollution)

\* normalizeCity(city), lines 223-229
normalizeCity(city) ==
  [name |-> Str(trim(jsString(city.name))),
   country |-> Str(trim(jsString(city.country))),
   pollution |-> parseFloat(city.pollution)]

\* Array.isArray
isArray(x) == x.t = "array"

RECURSIVE filterEntries(_)
filterEntries(entries) ==
  IF entries = <<>> THEN <<>>
  ELSE (IF isValidCity(Head(entries)) THEN <<normalizeCity(Head(entries))>>
        ELSE <<>>) \o filterEntries(Tail(entries))

\* filterValidCities(rawData), lines 57-77
filterValidCities(rawData) ==
  IF ~isArray(rawData) THEN <<>> ELSE filterEntries(rawData.items)

\* The fields of the raw records a client hands to the validator.
RawNames ==
  {Undefined, Null, Str(<<>>), Str(<<" ","O","s","l","o"," ">>), Str(Berlin), Str(<<"1","2","3","4","5">>), Str(<<"T","e","s","t">>),
   Str(<<"P","o","r","t">>), Str(<<"P","o","r","t"," ","C","i","t","y">>), Str(<<"A","1","2">>), Num(5), True}
RawCountries ==
  {Undefined, Null, Str(<<>>), Str(<<"X","X">>), Str(<<"N","O">>), Str(<<" ","N","o","r","w","a","y"," ">>), Str(<<"1">>), Num(47)}
RawPollutions ==
  {Undefined, Null, Dec(513), Dec(0), Dec(10000), Dec(10001), Dec(0 - 1),
   Str(<<"5","1",".","3">>), Str(<<"a","b","c">>), Str(<<>>), Str(<<"1","2","a","b","c">>), NaN, Infinity, True, False,
   Str(<<"0">>), Str(<<"1","0","0","0">>), Str(<<"-","0",".","1">>),
   Str(<<"1","0","0","0",".","1">>), Str(<<"I","n","f","i","n","i","t","y">>),
   Str(<<" ","7",".","5"," ">>), Str(<<"1","e","3">>), Str(<<"0","x","7","D","0">>),
   Arr(<<>>), Arr(<<Str(<<"7",".","5">>)>>), Arr(<<Dec(10001)>>)}
\* The raw records: objects with these fields, and values that are no
\* records.
RawEntries ==
  {Entry(n, c, p) : n \in RawNames, c \in RawCountries, p \in RawPollutions}
    \cup {Null, Undefined, Str(Berlin), Num(5), Arr(<<>>)}
\* The records of the arrays handed to filterValidCities.
EntryFlag == Entry(Str(Oslo), Str(Norway), True)
SampleEntries ==
  {EntryBerlin, EntryOslo, EntryRome, EntryDigits, EntryFlag,
   Entry(Str(Berlin), Undefined, Str(<<"1","2","a","b","c">>)),
   Entry(Str(Rome), Str(Norway), Arr(<<>>)), Null}
\* The arguments of filterValidCities: arrays of at most MaxRecords records,
\* and values that are no arrays.
RawArguments ==
  {Arr(items) : items \in UNION {[1..n -> SampleEntries] : n \in 0..MaxRecords}}
    \cup {Null, Undefined, [t |-> "obj", results |-> Arr(<<EntryBerlin>>)]}

\* ------------------------------------------------- getCitiesPollution
\* parseInt(x) of a query parameter: a string or undefined.  NaN without a
\* leading integer literal.
parseInt(x) ==
  IF x.t # "str" THEN NaN
  ELSE LET start == SpaceRun(x.s, 1) + 1
           signed == start <= Len(x.s) /\ x.s[start] \in {"+", "-"}
           p == IF signed THEN start + 1 ELSE start
           n == DigitRun(x.s, p)
           value == DigitsValue(SubSeq(x.s, p, p + n - 1))
       IN IF n = 0 THEN NaN
          ELSE Dec(10 * (IF signed /\ x.s[start] = "-" THEN 0 - value ELSE value))

\* `parseInt(q) || fallback`, lines 12-13, as an integer
parseIntOr(q, fallback) ==
  LET n == parseInt(q) IN IF TruthyValue(n) THEN n.v ELSE fallback

\* `cities_${page}_${limit}`, line 14
pageKey(page, limit) ==
  <<"c","i","t","i","e","s","_">> \o jsString(Dec(10 * page)) \o <<"_">>
    \o jsString(Dec(10 * limit))

\* The page cache never answers.
isPageCacheHit_Never(cachedData) == FALSE

\* `if (cachedData)`, line 18
isPageCacheHit(cachedData) == Truthy(cachedData)

\* The comparator `(a, b) => b.pollution - a.pollution` of line 33 puts
\* a city of pollution a before one of pollution b when Greater(a, b): its
\* result is below 0 then.  It is NaN when one of them is NaN, and the sort
\* reads a NaN result as 0.
\* The last place of the run that starts the list: strictly descending in
\* the comparator's order when desc, not descending otherwise.
RECURSIVE RunEnd(_, _, _)
RunEnd(a, desc, idx) ==
  IF idx <= Len(a) /\ (Greater(a[idx].pollution, a[idx - 1].pollution) <=> desc)
  THEN RunEnd(a, desc, idx + 1)
  ELSE idx - 1

\* The place among left..right-1, sorted, where the pivot goes: a binary
\* search that goes left only when the comparator puts the pivot first.
RECURSIVE Search(_, _, _, _)
Search(a, pivot, left, right) ==
  IF left >= right THEN left
  ELSE LET mid == left + ((right - left) \div 2)
       IN IF Greater(pivot.pollution, a[mid].pollution)
          THEN Search(a, pivot, left, mid)
          ELSE Search(a, pivot, mid + 1, right)

\* Binary insertion of the cities from place start on into the sorted
\* places before them.
RECURSIVE InsertFrom(_, _)
InsertFrom(a, start) ==
  IF start > Len(a) THEN a
  ELSE LET pivot == a[start]
           at == Search(a, pivot, 1, start)
       IN InsertFrom(SubSeq(a, 1, at - 1) \o <<pivot>> \o SubSeq(a, at, start - 1)
                       \o SubSeq(a, start + 1, Len(a)),
                     start + 1)

\* Array.prototype.sort((a, b) => b.pollution - a.pollution), line 33, as
\* the runtime sorts a list shorter than 64: the run that starts the list
\* is found and reversed when it descends, and the cities behind it are
\* put in by binary insertion.  Without a NaN among the pollutions this is
\* the stable sort by descending pollution.
sortCities(cities) ==
  IF Len(cities) < 2 THEN cities
  ELSE LET desc == Greater(cities[2].pollution, cities[1].pollution)
           run == RunEnd(cities, desc, 3)
           made == IF desc
                   THEN [i \in 1..Len(cities) |->
                           IF i <= run THEN cities[run + 1 - i] ELSE cities[i]]
                   ELSE cities
       IN InsertFrom(made, run + 1)

\* Array.prototype.slice(start, end) for 0 <= start <= end
slice(arr, start, end) ==
  SubSeq(arr, start + 1, IF end > Len(arr) THEN Len(arr) ELSE end)

\* `${city.name} is a city in ${city.country}.`, lines 47 and 53
fallbackDescription(city) ==
  Str(jsString(city.name) \o <<" ","i","s"," ","a"," ","c","i","t","y"," ","i","n"," ">>
        \o jsString(city.country) \o <<".">>)

\* Lines 41-57: the map callback is run for every city of the window in
\* order, each up to the first await of its getCityDescription call.
RECURSIVE startDescriptions(_, _, _)
startDescriptions(S, r, i) ==
  IF i > Len(S.pages[r].cities) THEN S
  ELSE LET city == S.pages[r].cities[i]
           c == Len(S.calls) + 1
           S1 == getCityDescription(S, city.name.s, city.country.s)
       IN startDescriptions(
            [S1 EXCEPT !.calls[c].owner = r,
                       !.pages[r].calls = Append(@, c)],
            r, i + 1)

\* Lines 44-48 and 59-70: once every description of the window is there,
\* the response is built, cached for ten minutes and sent.
finishPage(S, r) ==
  LET pg == S.pages[r]
      enrichedCities ==
        [i \in 1..Len(pg.cities) |->
           LET description == S.calls[pg.calls[i]].result
           IN [name |-> pg.cities[i].name,
               country |-> pg.cities[i].country,
               pollution |-> pg.cities[i].pollution,
               description |-> IF TruthyValue(description) THEN description
                               ELSE fallbackDescription(pg.cities[i])]]
      response == [t |-> "obj", page |-> pg.page, limit |-> pg.limit,
                   total |-> pg.total, cities |-> enrichedCities]
  IN [cacheSet(S, pg.key, response, Num(PageTtl))
        EXCEPT !.pages[r].pc = "done", !.pages[r].status = 200,
               !.pages[r].body = response]

\* The await of Promise.all, line 41: the handler runs on when every
\* getCityDescription call of the request has returned.
settlePage(S, r) ==
  IF /\ S.pages[r].pc = "enriching"
     /\ \A i \in 1..Len(S.pages[r].calls) : S.calls[S.pages[r].calls[i]].pc = "done"
  THEN finishPage(S, r)
  ELSE S

\* The catch of the handler, lines 72-78.
failPage(S, r) ==
  [S EXCEPT !.pages[r].pc = "done", !.pages[r].status = 500,
            !.pages[r].body = Undefined]

\* fetchPollutionData from line 56: the GET /pollution request is sent.
sendPollutionRequest(S, r) ==
  [S EXCEPT !.pages[r].pc = "fetching",
            !.sent = Append(@, [kind |-> "get", page |-> S.pages[r].page,
                                limit |-> S.pages[r].limit,
                                country |-> S.pages[r].country])]

\* fetchPollutionData(page, limit, country) up to its first await, lines
\* 50-57: without a token the login request is sent first.
fetchPollutionData(S, r) ==
  IF ~TruthyValue(S.token)
  THEN [S EXCEPT !.pages[r].pc = "auth",
                 !.sent = Append(@, [kind |-> "login", page |-> 0, limit |-> 0,
                                     country |-> Undefined])]
  ELSE sendPollutionRequest(S, r)

\* `response.data.results`
resultsOf(data) == IF data.t = "obj" THEN data.results ELSE Undefined

\* Every body passes the format check.
isInvalidFormat_Never(data) == FALSE

\* Line 68: `!response.data || !Array.isArray(response.data.results)`
isInvalidFormat(data) == ~TruthyValue(data) \/ ~isArray(resultsOf(data))

\* getCitiesPollution from line 29, with the data fetchPollutionData
\* returned, up to the await of the descriptions.
processPollutionData(S, r, rawPollutionData) ==
  LET validCities == filterValidCities(rawPollutionData)
      sortedCities == sortCities(validCities)
      startIndex == (S.pages[r].page - 1) * S.pages[r].limit
      endIndex == startIndex + S.pages[r].limit
      paginatedCities == slice(sortedCities, startIndex, endIndex)
      S1 == [S EXCEPT !.filtered = Append(@, rawPollutionData),
                      !.pages[r].pc = "enriching",
                      !.pages[r].total = Len(validCities),
                      !.pages[r].cities = paginatedCities]
  IN settlePage(startDescriptions(S1, r, 1), r)

\* The handler with the country filter as a part of the cache key.
getCitiesPollution_CountryKey(S, query) ==
  LET page == parseIntOr(query.page, DefaultPage)
      limit == parseIntOr(query.limit, DefaultLimit)
      cacheKey == pageKey(page, limit) \o <<"_">> \o jsString(query.country)
      cachedData == cacheGet(S, cacheKey)
      r == Len(S.pages) + 1
      pg == [page |-> page, limit |-> limit, country |-> query.country,
             key |-> cacheKey, pc |-> "start", status |-> 0,
             body |-> Undefined, hit |-> FALSE, total |-> 0,
             cities |-> <<>>, calls |-> <<>>, data |-> Undefined]
      S1 == [S EXCEPT !.pages = Append(@, pg)]
  IN IF isPageCacheHit(cachedData)
     THEN [S1 EXCEPT !.pages[r].pc = "done", !.pages[r].status = 200,
                     !.pages[r].body = cachedData, !.pages[r].hit = TRUE]
     ELSE fetchPollutionData(S1, r)

\* getCitiesPollution(req, res), lines 10-26, up to its return or first await.
getCitiesPollution(S, query) ==
  LET page == parseIntOr(query.page, DefaultPage)
      limit == parseIntOr(query.limit, DefaultLimit)
      cacheKey == pageKey(page, limit)
      cachedData == cacheGet(S, cacheKey)
      r == Len(S.pages) + 1
      pg == [page |-> page, limit |-> limit, country |-> query.country,
             key |-> cacheKey, pc |-> "start", status |-> 0,
             body |-> Undefined, hit |-> FALSE, total |-> 0,
             cities |-> <<>>, calls |-> <<>>, data |-> Undefined]
      S1 == [S EXCEPT !.pages = Append(@, pg)]
  IN IF isPageCacheHit(cachedData)
     THEN [S1 EXCEPT !.pages[r].pc = "done", !.pages[r].status = 200,
                     !.pages[r].body = cachedData, !.pages[r].hit = TRUE]
     ELSE fetchPollutionData(S1, r)

\* ---------------------------------------------------------------- actions
Init ==
  /\ cache = <<>>
  /\ timers = <<>>
  /\ scheduled = {}
  /\ nextTimer = 1
  /\ requestQueue = <<>>
  /\ isProcessing = FALSE
  /\ loops = <<>>
  /\ calls = <<>>
  /\ ago = minRequestInterval
  /\ enqueued = <<>>
  /\ dispatched = <<>>
  /\ written = <<>>
  /\ pages = <<>>
  /\ token = Null
  /\ sent = <<>>
  /\ filtered = <<>>
  /\ ops = <<>>
  /\ validated = [fn |-> "none", arg |-> Undefined, ret |-> Undefined]
  /\ summarized = [resp |-> [status |-> 0, extract |-> Undefined],
                   settle |-> [how |-> "none", value |-> Undefined]]

\* A client calls getCityDescription.
Describe ==
  /\ Len(calls) < MaxCalls
  /\ \E cityName \in CityNames, countryName \in CountryNames :
       Commit(getCityDescription(Cur, cityName, countryName))

\* The answer to the request of loop i arrives (or the request fails): the
\* lookup's promise is settled, the pacing delay starts, and the awaiting
\* getCityDescription call runs on.
Complete ==
  \E i \in 1..Len(loops), resp \in Responses :
    /\ loops[i].st = "inflight"
    /\ LET item == loops[i].item
           S1 == [Cur EXCEPT
                    !.loops[i] = [st |-> "delay", item |-> NoItem,
                                  left |-> delay(minRequestInterval)]]
           S2 == resumeCall(S1, item.call, settlement(resp))
           owner == S2.calls[item.call].owner
       IN Commit(IF owner # 0 THEN settlePage(S2, owner) ELSE S2)

\* The pacing delay of loop i is over: the loop takes the next lookup or ends.
DelayOver ==
  \E i \in 1..Len(loops) :
    /\ loops[i].st = "delay"
    /\ loops[i].left = 0
    /\ Commit(loopTest(Cur, i))

\* A timeout of the cache fires: `this.delete(key)`.
Expire ==
  \E tm \in scheduled :
    /\ tm.left = 0
    /\ Commit(cacheDelete([Cur EXCEPT !.scheduled = @ \ {tm}], tm.key))

\* The times left on the pending timeouts; time does not pass a deadline
\* before its callback has run.
TimesLeft ==
  {tm.left : tm \in scheduled}
    \cup {loops[i].left : i \in {j \in 1..Len(loops) : loops[j].st = "delay"}}

InFlight == {i \in 1..Len(loops) : loops[i].st = "inflight"}

AgoCap == IF MaxLatency > minRequestInterval THEN MaxLatency ELSE minRequestInterval

Min(a, b) == IF a < b THEN a ELSE b

\* d milliseconds pass.
Elapse(d) ==
  /\ scheduled' = {[tm EXCEPT !.left = @ - d] : tm \in scheduled}
  /\ loops' = [i \in 1..Len(loops) |->
                 IF loops[i].st = "delay"
                 THEN [loops[i] EXCEPT !.left = @ - d] ELSE loops[i]]
  /\ ago' = Min(ago + d, AgoCap)
  /\ written' = [k \in DOMAIN written |->
                   IF k \in DOMAIN cache
                   THEN [written[k] EXCEPT !.age = @ + d] ELSE written[k]]
  /\ UNCHANGED <<cache, timers, nextTimer, requestQueue, isProcessing,
                 calls, enqueued, dispatched, pages, token, sent, filtered,
                 ops, validated, summarized>>

\* Time passes: up to the next deadline, or by the latency of the request
\* in flight.
Advance ==
  \E d \in {MaxLatency} \cup TimesLeft :
    /\ d > 0
    /\ \A l \in TimesLeft : d <= l
    /\ \/ d \in TimesLeft
       \/ InFlight # {} /\ ago + d <= MaxLatency
    /\ Elapse(d)

Next == Describe \/ Complete \/ DelayOver \/ Expire \/ Advance

\* The description service with its queue and the cache, called by clients.
Spec == Init /\ [][Next]_vars

\* A client calls getCityDescription for the one city of the clients whose
\* calls are followed to their end.
DescribeAgain ==
  /\ Len(calls) < MaxCalls
  /\ \E cityName \in {Oslo}, countryName \in CountryNames :
       Commit(getCityDescription(Cur, cityName, countryName))

NextLive == DescribeAgain \/ Complete \/ DelayOver \/ Expire \/ Advance

\* The description service when every outbound request is answered or
\* fails (the client's timeout of line 14), the runtime runs the callbacks
\* of the timeouts that are due, and time goes on.
SpecLive ==
  /\ Init
  /\ [][NextLive]_vars
  /\ WF_vars(Complete)
  /\ WF_vars(DelayOver)
  /\ WF_vars(Expire)
  /\ WF_vars(Advance)

\* A client sends GET /cities; the parameters have passed
\* validatePaginationParams.
PageRequest ==
  /\ Len(pages) < MaxRequests
  /\ \E query \in Queries : Commit(getCitiesPollution(Cur, query))

\* The login request of page request r is answered: authenticate stores the
\* token of the answer and fetchPollutionData sends the GET, or the request
\* failed and the error reaches the handler's catch.
LoginAnswer ==
  \E r \in 1..Len(pages), answer \in LoginAnswers :
    /\ pages[r].pc = "auth"
    /\ Commit(IF answer.ok
              THEN sendPollutionRequest([Cur EXCEPT !.token = answer.token], r)
              ELSE failPage(Cur, r))

\* The GET /pollution request of page request r is answered, or it fails
\* (no answer in time, a status outside 2xx): lines 68-78 of the service
\* and the rest of the handler up to its next await.
PollutionAnswer ==
  \E r \in 1..Len(pages), answer \in PollutionAnswers :
    /\ pages[r].pc = "fetching"
    /\ Commit(IF answer.ok /\ ~isInvalidFormat(answer.data)
              THEN processPollutionData([Cur EXCEPT !.pages[r].data = answer.data],
                                        r, answer.data)
              ELSE failPage([Cur EXCEPT !.pages[r].data = answer.data], r))

NextPage == PageRequest \/ LoginAnswer \/ PollutionAnswer \/ Expire \/ Advance

\* The page controller with the pollution service, the validator and the
\* cache.
SpecPage == Init /\ [][NextPage]_vars

\* A client calls cache.set.
CacheSet ==
  /\ Len(ops) < MaxOps
  /\ \E key \in CacheKeys, value \in CacheValues, ttl \in CacheTtls :
       Commit(callSet(Cur, key, value, ttl))

\* A client calls cache.get.
CacheGet ==
  /\ Len(ops) < MaxOps
  /\ \E key \in CacheKeys : Commit(callGet(Cur, key))

\* A client calls cache.has.
CacheHas ==
  /\ Len(ops) < MaxOps
  /\ \E key \in CacheKeys : Commit(callHas(Cur, key))

\* A client calls cache.delete.
CacheDelete ==
  /\ Len(ops) < MaxOps
  /\ \E key \in CacheKeys : Commit(callDelete(Cur, key))

\* A client calls cache.clear.
CacheClear ==
  /\ Len(ops) < MaxOps
  /\ Commit(callClear(Cur))

\* A client calls cache.stats.
CacheStats ==
  /\ Len(ops) < MaxOps
  /\ Commit(callStats(Cur))

\* The client lets TimeStep milliseconds pass while a timeout is pending.
Wait ==
  /\ TimesLeft # {}
  /\ \A l \in TimesLeft : TimeStep <= l
  /\ Elapse(TimeStep)

NextCache ==
  CacheSet \/ CacheGet \/ CacheHas \/ CacheDelete \/ CacheClear \/ CacheStats
    \/ Expire \/ Advance \/ Wait

\* The cache, called by a client directly.
SpecCache == Init /\ [][NextCache]_vars

\* A client calls isValidCity(entry).
Classify ==
  /\ validated.fn = "none"
  /\ \E entry \in RawEntries :
       Commit([Cur EXCEPT !.validated = [fn |-> "isValidCity", arg |-> entry,
                                         ret |-> isValidCity(entry)]])

\* A client calls filterValidCities(rawData).
FilterCities ==
  /\ validated.fn = "none"
  /\ \E rawData \in RawArguments :
       Commit([Cur EXCEPT !.validated = [fn |-> "filterValidCities",
                                         arg |-> rawData,
                                         ret |-> filterValidCities(rawData)]])

NextValidator == Classify \/ FilterCities

\* The validator, called once by a client directly.
SpecValidator == Init /\ [][NextValidator]_vars

\* A text of len characters: periods at the places of dots, blanks at the
\* places of blanks, letters elsewhere.
TextOf(len, dots, blanks) ==
  [i \in 1..len |-> IF i \in dots THEN "." ELSE IF i \in blanks THEN " " ELSE "a"]

\* The lengths of the extracts, around the limit of 300 characters.
ExtractLengths == {ExtractLimit - 1, ExtractLimit, ExtractLimit + 1, MaxExtract}
\* The places of their periods, around the floor of 200 characters.
PeriodPlaces ==
  {SentenceFloor - 50, SentenceFloor, SentenceFloor + 1, SentenceFloor + 2,
   SentenceFloor + 50, ExtractLimit, ExtractLimit + 1}
\* The places of their blanks, by length: none, at an end, at the limit.
BlankPlaces(len) == {{}, {1}, {len}, {1, len}, {ExtractLimit}}
\* The extracts of the summary answers: two periods at most.
LongExtracts ==
  {TextOf(len, dots, blanks) :
     len \in ExtractLengths,
     dots \in {D \in SUBSET PeriodPlaces : Cardinality(D) <= 2},
     blanks \in UNION {BlankPlaces(len) : len \in ExtractLengths}}

\* A summary request is answered with status 200 and an extract: lines
\* 106-122 settle the promise of the lookup.
Summarize ==
  /\ summarized.settle.how = "none"
  /\ \E text \in LongExtracts :
       LET resp == [status |-> 200, extract |-> Str(text)]
       IN Commit([Cur EXCEPT !.summarized = [resp |-> resp,
                                            settle |-> settlement(resp)]])

\* A summary request ends without a body: not found, a server error, no
\* answer at all.
SummarizeNothing ==
  /\ summarized.settle.how = "none"
  /\ \E resp \in {r \in Responses : r.extract = Undefined} :
       Commit([Cur EXCEPT !.summarized = [resp |-> resp,
                                          settle |-> settlement(resp)]])

NextExtract == Summarize \/ SummarizeNothing

\* The settlement of one summary answer.
SpecExtract == Init /\ [][NextExtract]_vars

\* ================================================================= claims
Range(seq) == {seq[i] : i \in 1..Len(seq)}
Lookup(e) == [title |-> e.title, call |-> e.call, idx |-> e.idx]
\* The places of the lookups of call c in a log.
PlacesOf(log, c) == {i \in 1..Len(log) : log[i].call = c}
Waiting == {c \in 1..Len(calls) : calls[c].pc = "waiting"}

\* C1: under every interleaving of describe calls and lookup outcomes, at
\* most one invocation of _processQueue is draining the backlog and at most
\* one outbound lookup is in flight; the processing flag is set exactly
\* while that one loop runs.
C1_SingleDrainLoop ==
  /\ Len(loops) <= 1
  /\ Cardinality(InFlight) <= 1
  /\ isProcessing <=> Len(loops) = 1

\* A second describe call asked for draining while the loop of the first had
\* its request in flight, and its lookup waits in the backlog.
C1_Witness ==
  /\ Cardinality(Waiting) = 2
  /\ isProcessing
  /\ InFlight # {}
  /\ Len(requestQueue) = 1

\* C2: any two consecutive outbound lookups are sent at least the minimum
\* request interval apart, whether the later one is taken by the running
\* loop after its pacing delay or starts a new loop.
C2_MinimumSpacing ==
  \A i \in 2..Len(dispatched) : dispatched[i].gap >= minRequestInterval

\* A lookup taken by the running loop and, later, a lookup that started a
\* new loop after the previous loop had ended.
C2_Witness ==
  \E i, j \in 2..Len(dispatched) :
    /\ i < j
    /\ ~dispatched[i].fresh
    /\ dispatched[j].fresh

\* C3: the lookups are sent in the order in which they were pushed on the
\* backlog, each once; each lookup sent and answered has settled its caller
\* once; and the first lookups of the describe calls are sent in the order
\* of the calls.
C3_FifoDispatch ==
  /\ Len(dispatched) + Len(requestQueue) = Len(enqueued)
  /\ \A i \in 1..Len(dispatched) : Lookup(dispatched[i]) = enqueued[i]
  /\ \A i \in 1..Len(requestQueue) :
       requestQueue[i] = enqueued[Len(dispatched) + i]
  /\ \A i, j \in 1..Len(enqueued) :
       i # j => <<enqueued[i].call, enqueued[i].idx>>
                  # <<enqueued[j].call, enqueued[j].idx>>
  /\ \A c \in 1..Len(calls) :
       Len(calls[c].outs) =
         Cardinality(PlacesOf(dispatched, c))
           - Cardinality({i \in InFlight : loops[i].item.call = c})
  /\ \A i, j \in 1..Len(dispatched) :
       /\ dispatched[i].idx = 1
       /\ dispatched[j].idx = 1
       /\ dispatched[i].call < dispatched[j].call
       => i < j

\* Two describe calls for different cities are pending; the lookups were
\* sent in the order first call, second call, first call's second variant.
C3_Witness ==
  /\ Len(calls) = 2
  /\ calls[1].key # calls[2].key
  /\ Len(dispatched) >= 3
  /\ <<dispatched[1].call, dispatched[1].idx>> = <<1, 1>>
  /\ <<dispatched[2].call, dispatched[2].idx>> = <<2, 1>>
  /\ <<dispatched[3].call, dispatched[3].idx>> = <<1, 2>>

Done == {c \in 1..Len(calls) : calls[c].pc = "done"}
\* The number of outbound requests sent for call c.
SentFor(c) == Cardinality(PlacesOf(dispatched, c))

\* C4: a describe call that finds an entry under its key in the cache, be it
\* a description or the cached not-found result, returns the cached value at
\* once, pushes no lookup on the backlog and causes no outbound request.
C4_CachedEntryIsHit ==
  \A c \in 1..Len(calls) :
    calls[c].hadEntry =>
      /\ calls[c].pc = "done"
      /\ calls[c].result = calls[c].cached
      /\ PlacesOf(enqueued, c) = {}

\* C4 restricted to what the code does: the cached not-found result (null)
\* is not a hit, the call goes through the lookups again.
C4_NegativeEntryMisses ==
  \E c \in 1..Len(calls) :
    /\ calls[c].hadEntry
    /\ calls[c].cached = Null
    /\ PlacesOf(enqueued, c) # {}

\* C5, as claimed: two describe calls for the same key, the second made while
\* the first is pending or while the first's entry is in the cache, cause at
\* most one outbound lookup when the first call's bare-city lookup yields a
\* description.
C5_AtMostOneLookupForTwoCalls ==
  \A c1, c2 \in 1..Len(calls) :
    /\ c1 < c2
    /\ calls[c1].key = calls[c2].key
    /\ calls[c1].outs = <<"found">>
    /\ c1 \in calls[c2].live \/ calls[c2].hadEntry
    => SentFor(c1) + SentFor(c2) <= 1

\* C5, amended: a second call made after the first has returned a
\* description, while that description is in the cache, is a cache hit: it
\* sends nothing and returns the same description, so that the two calls
\* cause one outbound lookup; a second call made while the first is pending
\* finds no description in the cache and pushes a lookup of its own.
C5_SecondCallAfterReturnIsHit ==
  \A c1, c2 \in 1..Len(calls) :
    /\ c1 < c2
    /\ calls[c1].key = calls[c2].key
    => /\ /\ calls[c1].outs = <<"found">>
          /\ c1 \notin calls[c2].live
          /\ calls[c2].cached = calls[c1].result
          => /\ calls[c2].pc = "done"
             /\ calls[c2].result = calls[c1].result
             /\ SentFor(c2) = 0
             /\ PlacesOf(enqueued, c2) = {}
             /\ SentFor(c1) + SentFor(c2) = 1
       /\ /\ c1 \in calls[c2].live
          /\ ~Truthy(calls[c2].cached)
          => PlacesOf(enqueued, c2) # {}

\* The second call for the key hit the description the first had cached.
C5_Witness ==
  \E c1, c2 \in 1..Len(calls) :
    /\ c1 < c2
    /\ calls[c1].key = calls[c2].key
    /\ calls[c1].city # calls[c2].city
    /\ calls[c1].outs = <<"found">>
    /\ c1 \notin calls[c2].live
    /\ calls[c2].cached = calls[c1].result
    /\ calls[c2].pc = "done"

\* C6, as claimed: after a lookup of a describe call has failed with an
\* error that is not a not-found answer, the call issues no further variant
\* lookup and returns absent.
C6_ErrorAbandonsVariants ==
  \A c \in 1..Len(calls) : \A i \in 1..Len(calls[c].outs) :
    calls[c].outs[i] = "reject" =>
      /\ calls[c].idx = i
      /\ calls[c].pc = "done"
      /\ calls[c].result = Null

\* C6, amended: a lookup that fails with any error is treated like an empty
\* answer: the next variant is tried, and the call returns absent only after
\* the last variant has ended without a description.
C6_ErrorTriesNextVariant ==
  \A c \in 1..Len(calls) : \A i \in 1..Len(calls[c].outs) :
    calls[c].outs[i] = "reject" =>
      IF i < Len(searchTerms(calls[c].city, calls[c].country))
      THEN /\ calls[c].idx >= i + 1
           /\ \E e \in PlacesOf(enqueued, c) : enqueued[e].idx = i + 1
      ELSE /\ calls[c].pc = "done"
           /\ calls[c].result = Null
           /\ calls[c].idx = i

\* A call whose first lookup failed with an error and whose second variant
\* has been sent; and a call that returned absent after an error on the
\* last variant.
C6_Witness ==
  \E c, d \in 1..Len(calls) :
    /\ calls[c].outs # <<>>
    /\ calls[c].outs[1] = "reject"
    /\ \E e \in PlacesOf(dispatched, c) : dispatched[e].idx = 2
    /\ Len(calls[d].outs) = 3
    /\ calls[d].outs[3] = "reject"
    /\ calls[d].pc = "done"

\* The lookups of call c that wait in the backlog or are in flight.
PendingFor(c) ==
  Cardinality({i \in 1..Len(requestQueue) : requestQueue[i].call = c})
    + Cardinality({i \in InFlight : loops[i].item.call = c})

\* The query term of variant i of a describe call, as the claim lists them.
VariantTerm(city, country, i) ==
  CASE i = 1 -> city
    [] i = 2 -> city \o <<",", " ">> \o country
    [] i = 3 -> city \o <<" ">> \o country

\* C7: a describe call that misses the cache pushes its lookups in the order
\* city, "city, country", "city country", the next only after the previous
\* one was answered without a description; the first description found ends
\* the call, which returns it; so a call pushes at most three lookups and
\* has at most one of them in the backlog or in flight.
C7_VariantsInOrder ==
  \A c \in 1..Len(calls) :
    LET call == calls[c]
        places == PlacesOf(enqueued, c)
    IN /\ call.idx <= 3
       /\ Cardinality(places) = call.idx
       /\ ~Truthy(call.cached) => call.idx >= 1
       /\ \A e \in places :
            /\ enqueued[e].idx = Cardinality({f \in places : f <= e})
            /\ enqueued[e].title =
                 VariantTerm(call.city, call.country, enqueued[e].idx)
       /\ PendingFor(c) <= 1
       /\ call.idx <= Len(call.outs) + 1
       /\ \A i \in 1..Len(call.outs) :
            call.outs[i] = "found" =>
              /\ i = Len(call.outs)
              /\ call.idx = i
              /\ call.pc = "done"
              /\ Truthy(call.result)

\* A call that found its description with the third variant, after an empty
\* answer and an error.
C7_Witness ==
  \E c \in 1..Len(calls) :
    /\ calls[c].pc = "done"
    /\ Len(calls[c].outs) = 3
    /\ calls[c].outs[3] = "found"
    /\ calls[c].result = Str(TextA)

\* The entry of key k is the one the last cache.set of k wrote, its TTL is
\* 24 hours for a description and 1 hour for the negative result, and its
\* timeout is pending with the rest of that TTL left.
C8_EntryHasItsTtl(k) ==
  /\ k \in DOMAIN written
  /\ cache[k] = written[k].value
  /\ written[k].ttl =
       Num(IF Truthy(cache[k]) THEN 24 * 60 * 60 * 1000 ELSE 60 * 60 * 1000)
  /\ k \in DOMAIN timers
  /\ \E tm \in scheduled :
       /\ tm.id = timers[k]
       /\ tm.key = k
       /\ tm.left + written[k].age = written[k].ttl.v

\* A describe call that ends after lookups has just written its result under
\* its key: the description, or null when all three variants ended without.
C8_ReturnWrites ==
  \A c \in 1..Len(calls) :
    /\ calls[c].pc # "done"
    /\ calls'[c].pc = "done"
    => /\ calls'[c].key \in DOMAIN cache'
       /\ cache'[calls'[c].key] = calls'[c].result
       /\ written'[calls'[c].key].age = 0
       /\ \/ Truthy(calls'[c].result)
          \/ /\ calls'[c].result = Null
             /\ Len(calls'[c].outs) = 3
             /\ \A i \in 1..3 : calls'[c].outs[i] # "found"

\* An entry leaves the cache only when its TTL has elapsed.
C8_RemovedAtTtl ==
  \A k \in DOMAIN cache :
    k \notin DOMAIN cache' => written[k].age = written[k].ttl.v

\* C8: describe stores a found description under its key with a TTL of 24
\* hours, and the negative result, when every variant ended without a
\* description, with a TTL of 1 hour; the entry stays until that TTL has
\* elapsed and is removed then.
C8_DescribeTtls ==
  /\ [](\A k \in DOMAIN cache : C8_EntryHasItsTtl(k))
  /\ [][C8_ReturnWrites /\ C8_RemovedAtTtl]_vars

\* A negative result and a description, both cached by describe calls, some
\* time after they were written; the negative one is an hour old.
C8_Witness ==
  \E c, d \in 1..Len(calls) :
    /\ calls[c].pc = "done" /\ calls[c].result = Null
    /\ Len(calls[c].outs) = 3
    /\ calls[d].pc = "done" /\ calls[d].outs # <<>>
    /\ Truthy(calls[d].result)
    /\ {calls[c].key, calls[d].key} \subseteq DOMAIN cache
    /\ written[calls[c].key].age = 60 * 60 * 1000
    /\ written[calls[d].key].age > 0

\* The cities of a response without their descriptions.
Bare(cities) ==
  [i \in 1..Len(cities) |->
     [name |-> cities[i].name, country |-> cities[i].country,
      pollution |-> cities[i].pollution]]

\* The page requests that missed the page cache and whose GET /pollution was
\* answered with {results: R}, R an array.
AnsweredMisses ==
  {r \in 1..Len(pages) :
     /\ pages[r].pc = "done"
     /\ ~pages[r].hit
     /\ pages[r].data.t = "obj"
     /\ isArray(resultsOf(pages[r].data))}

\* C9: on a page-cache miss where the pollution source answers with
\* {results: R}, the response has total equal to the number of records of R
\* the validator accepts, and cities equal to the accepted records,
\* normalized, sorted by pollution descending with ties in their original
\* order, restricted to the window [(page-1)*limit, page*limit), each with a
\* description.
C9_PageListsAcceptedCities ==
  \A r \in AnsweredMisses :
    LET accepted == filterEntries(resultsOf(pages[r].data).items)
        window == slice(sortCities(accepted),
                        (pages[r].page - 1) * pages[r].limit,
                        pages[r].page * pages[r].limit)
    IN /\ pages[r].status = 200
       /\ pages[r].body.total = Len(accepted)
       /\ Bare(pages[r].body.cities) = window
       /\ \A i \in 1..Len(pages[r].body.cities) :
            pages[r].body.cities[i].description.t = "str"

\* What the code answers instead: the validator is handed the whole body
\* {results: R}, which is no array, so the response is empty whatever R holds.
C9_ResponseIsEmpty ==
  \E r \in AnsweredMisses :
    /\ filterEntries(resultsOf(pages[r].data).items) # <<>>
    /\ pages[r].status = 200
    /\ pages[r].body.total = 0
    /\ pages[r].body.cities = <<>>

\* C10: if a page response is cached under the key for (page, limit), a
\* request for that page and limit returns exactly the cached response and
\* performs no pollution-source fetch, no classification, no description
\* lookup and no cache write.
C10_HitReturnsCachedResponse ==
  [][\A r \in 1..Len(pages') :
       /\ r > Len(pages)
       /\ pageKey(pages'[r].page, pages'[r].limit) \in DOMAIN cache
       => /\ pages'[r].pc = "done"
          /\ pages'[r].status = 200
          /\ pages'[r].body = cache[pageKey(pages'[r].page, pages'[r].limit)]
          /\ UNCHANGED <<cache, timers, scheduled, nextTimer, written, token,
                         sent, filtered, requestQueue, isProcessing, loops,
                         calls, enqueued, dispatched, ops, validated,
                         summarized>>]_vars

\* A request answered from the page cache with the response an earlier
\* request for the same page and limit had built, while that response was
\* some time in the cache.
C10_Witness ==
  \E r, q \in 1..Len(pages) :
    /\ q < r
    /\ ~pages[q].hit /\ pages[q].status = 200
    /\ pages[r].hit /\ pages[r].pc = "done"
    /\ pages[r].page = pages[q].page /\ pages[r].limit = pages[q].limit
    /\ pages[r].body = pages[q].body
    /\ pages[r].body.t = "obj"
    /\ written[pages[r].key].age > 0

\* The pollution-source fetch of page request r failed: the login or the GET
\* got no usable answer, or the body was not shaped as {results: array}.
FetchFailed(r) ==
  /\ ~pages[r].hit
  /\ ~(pages[r].data.t = "obj" /\ pages[r].data.results.t = "array")

\* C11: a page request ends with the generic server error if and only if
\* the pollution-source fetch failed (unreachable, timed out, or a body not
\* shaped as {results: array}); otherwise it ends with status 200, whatever
\* the raw records hold.
C11_ServerErrorIffFetchFails ==
  \A r \in 1..Len(pages) :
    pages[r].pc = "done" =>
      /\ pages[r].status \in {200, 500}
      /\ pages[r].status = 500 <=> FetchFailed(r)
      /\ pages[r].status = 500 => pages[r].body = Undefined
      /\ pages[r].status = 200 => pages[r].body.t = "obj"

\* One request failed on a body without a results array, another got
\* malformed records among its results and ended with status 200.
C11_Witness ==
  \E r, q \in 1..Len(pages) :
    /\ pages[r].pc = "done" /\ pages[r].status = 500
    /\ pages[r].data.t = "obj" /\ pages[r].data.results = Undefined
    /\ pages[q].pc = "done" /\ pages[q].status = 200 /\ ~pages[q].hit
    /\ pages[q].data.t = "obj"
    /\ pages[q].data.results = Arr(<<EntryBerlin, EntryDigits, EntryTest>>)

\* The page requests that missed the page cache and were answered with a
\* page built for them.
BuiltPages ==
  {r \in 1..Len(pages) :
     pages[r].pc = "done" /\ ~pages[r].hit /\ pages[r].status = 200}

\* "{name} is a city in {country}."
GenericSentence(city) ==
  Str(city.name.s \o <<" ","i","s"," ","a"," ","c","i","t","y"," ","i","n"," ">>
        \o city.country.s \o <<".">>)

\* The describe call the handler of request r made for the city at place i
\* of its window.
DescribeCallOf(r, i) == calls[pages[r].calls[i]]

\* C12: every city of a page response carries a non-empty description: the
\* text the describe call made for that city returned, when it returned one,
\* and otherwise the sentence "{name} is a city in {country}." of that city.
\* No page response of the controller has a city (C9_ResponseIsEmpty), so
\* no state shows the formula at work.
C12_DescriptionOrSentence ==
  \A r \in BuiltPages :
    \A i \in 1..Len(pages[r].body.cities) :
      LET city == pages[r].body.cities[i]
      IN /\ city.description.t = "str"
         /\ city.description.s # <<>>
         /\ i <= Len(pages[r].calls)
         /\ DescribeCallOf(r, i).pc = "done"
         /\ DescribeCallOf(r, i).city = city.name.s
         /\ DescribeCallOf(r, i).country = city.country.s
         /\ LET described == DescribeCallOf(r, i).result
            IN city.description =
                 IF described.t = "str" /\ described.s # <<>>
                 THEN described ELSE GenericSentence(city)

\* C13: whatever the order in which the lookups of a page request complete,
\* the response lists the cities in the order fixed before enrichment (the
\* window of the sorted list), and the description at each place comes from
\* the describe call made for the city of that place.
\* The window is empty in every page request (C9_ResponseIsEmpty): no
\* lookup is started by one, and no state shows the formula at work.
C13_OrderKept ==
  \A r \in BuiltPages :
    /\ Bare(pages[r].body.cities) = pages[r].cities
    /\ Len(pages[r].calls) = Len(pages[r].cities)
    /\ \A i \in 1..Len(pages[r].cities) :
         /\ DescribeCallOf(r, i).owner = r
         /\ DescribeCallOf(r, i).city = pages[r].cities[i].name.s
         /\ DescribeCallOf(r, i).country = pages[r].cities[i].country.s
         /\ pages[r].body.cities[i].description =
              IF Truthy(DescribeCallOf(r, i).result)
              THEN DescribeCallOf(r, i).result
              ELSE GenericSentence(pages[r].cities[i])

\* The calls of the history that write or remove key k.
Touches(k) ==
  {i \in 1..Len(ops) :
     \/ ops[i].op = "clear"
     \/ ops[i].op \in {"set", "delete"} /\ ops[i].key = k}

\* The last of them, 0 when there is none.
LastTouch(k) ==
  IF Touches(k) = {} THEN 0
  ELSE CHOOSE i \in Touches(k) : \A j \in Touches(k) : j <= i

\* Key k was set and no set, delete or clear on it has followed.
SetStands(k) == LastTouch(k) # 0 /\ ops[LastTouch(k)].op = "set"

\* The ttl of a set call is a positive number, Infinity included.
PositiveTtl(call) ==
  call.ttl = Infinity \/ (call.ttl.t = "num" /\ call.ttl.v > 0)

\* The set call has no ttl, or one that is a number and not positive.
NonPositiveTtl(call) ==
  call.ttl = Null \/ (call.ttl.t = "num" /\ call.ttl.v <= 0)

\* Less than the positive ttl, and no more than it, has elapsed at this age.
BeforeTtl(age, ttl) == ttl = Infinity \/ age < ttl.v
WithinTtl(age, ttl) == ttl = Infinity \/ age <= ttl.v

\* A timeout of key k is pending.
ExpirationPending(k) == \E tm \in scheduled : tm.key = k

\* C14: after set(k, v, ttl) with a positive ttl and no later set, delete or
\* clear on k, get(k) is v and has(k) is true as long as less than ttl has
\* elapsed since the set, and once the expiration has fired get(k) is absent
\* and has(k) is false.
C14_PresentUntilTtl ==
  \A k \in CacheKeys :
    SetStands(k) /\ PositiveTtl(ops[LastTouch(k)]) =>
      /\ BeforeTtl(written[k].age, ops[LastTouch(k)].ttl) =>
           /\ cacheHas(Cur, k)
           /\ cacheGet(Cur, k) = ops[LastTouch(k)].value
      /\ ~ExpirationPending(k) =>
           /\ ~cacheHas(Cur, k)
           /\ cacheGet(Cur, k) = Undefined

\* What the code does with a ttl of 2^31 milliseconds: the entry is gone
\* one millisecond after the set.
C14_GoneAfterOneMillisecond ==
  \E k \in CacheKeys :
    /\ SetStands(k)
    /\ ops[LastTouch(k)].ttl = TooLong
    /\ written[k].age = 1
    /\ ~cacheHas(Cur, k)

\* The pending timeouts of key k.
PendingOf(k) == {tm \in scheduled : tm.key = k}

\* C15: only the most recent set of a key governs its expiration. After a
\* set with no ttl or a non-positive one no removal of the key is pending,
\* whatever the sets before it scheduled, and the value stays; after a set with a
\* positive ttl one removal is pending, the value stays until it fires, and
\* the key is gone when that ttl has elapsed since this set.
C15_LastSetGoverns ==
  \A k \in CacheKeys :
    SetStands(k) =>
      LET call == ops[LastTouch(k)]
      IN /\ Cardinality(PendingOf(k)) <= 1
         /\ NonPositiveTtl(call) =>
              /\ PendingOf(k) = {}
              /\ k \in DOMAIN cache
              /\ cache[k] = call.value
         /\ PositiveTtl(call) =>
              /\ WithinTtl(written[k].age, call.ttl)
              /\ k \in DOMAIN cache <=> PendingOf(k) # {}
              /\ k \in DOMAIN cache => cache[k] = call.value
              /\ \A tm \in PendingOf(k) :
                   WithinTtl(tm.left + written[k].age, call.ttl)

\* set(k, v1, t1) and then set(k, v2) without ttl: v2 is there when t1 has
\* elapsed.
C15_Witness ==
  \E k \in CacheKeys : \E i \in 1..Len(ops) :
    /\ SetStands(k)
    /\ i < LastTouch(k)
    /\ ops[i].op = "set" /\ ops[i].key = k /\ PositiveTtl(ops[i])
    /\ ops[i].ttl \notin {TooLong, Infinity}
    /\ NonPositiveTtl(ops[LastTouch(k)])
    /\ ops[i].value # ops[LastTouch(k)].value
    /\ written[k].age >= ops[i].ttl.v
    /\ cacheGet(Cur, k) = ops[LastTouch(k)].value

\* The step is a call of the cache by the client; LastCall is the call.
CallMade == Len(ops') = Len(ops) + 1
LastCall == ops'[Len(ops')]

\* A delete(k) call returns true exactly when k was in the cache right
\* before it, whatever the value; after it k is absent and no timeout of k
\* is pending; the other keys and their timeouts are as they were.
C16_DeleteStep ==
  CallMade /\ LastCall.op = "delete" =>
    /\ LastCall.ret = (IF LastCall.key \in DOMAIN cache THEN True ELSE False)
    /\ LastCall.key \notin DOMAIN cache'
    /\ LastCall.key \notin DOMAIN timers'
    /\ scheduled' = scheduled \ PendingOf(LastCall.key)
    /\ \A k \in CacheKeys \ {LastCall.key} :
         /\ k \in DOMAIN cache' <=> k \in DOMAIN cache
         /\ k \in DOMAIN cache => cache'[k] = cache[k]

\* Every pending timeout was scheduled by the last set of its key, which no
\* delete or clear has followed.
C16_NoTimerFromBefore ==
  \A tm \in scheduled :
    /\ SetStands(tm.key)
    /\ ttlGiven(ops[LastTouch(tm.key)].ttl)
    /\ tm.key \in DOMAIN timers
    /\ timers[tm.key] = tm.id
    /\ PendingOf(tm.key) = {tm}

\* C16: delete(k) returns true exactly when k was present immediately before
\* the call (a key holding null included), leaves k absent and cancels the
\* pending expiration of k, so that no timer scheduled before the delete can
\* remove a value set on k afterwards.
C16_DeleteCancels ==
  /\ [][C16_DeleteStep]_vars
  /\ []C16_NoTimerFromBefore

\* A key holding null with a pending expiration was deleted (true), deleted
\* again (false), and nothing of it is left.
C16_Witness ==
  \E k \in CacheKeys :
    /\ Len(ops) = 3
    /\ ops[1].op = "set" /\ ops[1].key = k /\ ops[1].value = Null
    /\ PositiveTtl(ops[1])
    /\ ops[2].op = "delete" /\ ops[2].key = k /\ ops[2].ret = True
    /\ ops[3].op = "delete" /\ ops[3].key = k /\ ops[3].ret = False
    /\ ~cacheHas(Cur, k)
    /\ scheduled = {}

\* The place of the last clear() in the history, 0 when there is none.
LastClear ==
  IF \A i \in 1..Len(ops) : ops[i].op # "clear" THEN 0
  ELSE CHOOSE i \in 1..Len(ops) :
         ops[i].op = "clear" /\ \A j \in i + 1..Len(ops) : ops[j].op # "clear"

\* A clear() call leaves no entry and no pending timeout.
C17_ClearStep ==
  CallMade /\ LastCall.op = "clear" =>
    /\ DOMAIN cache' = {}
    /\ DOMAIN timers' = {}
    /\ scheduled' = {}

\* After a clear(), only keys set since are in the cache, stats() tells their
\* number, and every pending timeout was scheduled by a set made after the
\* clear, one for a key at most.
C17_OnlyLaterSetsCount ==
  /\ \A k \in DOMAIN cache :
       \E i \in LastClear + 1..Len(ops) : ops[i].op = "set" /\ ops[i].key = k
  /\ \A tm \in scheduled :
       /\ \E i \in LastClear + 1..Len(ops) :
            ops[i].op = "set" /\ ops[i].key = tm.key /\ ttlGiven(ops[i].ttl)
       /\ PendingOf(tm.key) = {tm}
       /\ tm.key \in DOMAIN cache
  /\ LastClear # 0 /\ LastClear = Len(ops) => cacheStats(Cur).size = 0

\* A stats() call made after a clear() with no set between them reports
\* size 0.
C17_StatsStep ==
  CallMade /\ LastCall.op = "stats" /\ LastClear # 0
    /\ (\A i \in LastClear + 1..Len(ops) : ops[i].op # "set")
    => LastCall.ret.size = 0 /\ LastCall.ret.keys = {}

\* C17: after clear() the cache has no entries (stats().size is 0, has(k) is
\* false for every k) and no expiration is pending: no timer scheduled
\* before the clear fires afterwards or removes an entry set after it.
C17_ClearEmpties ==
  /\ [][C17_ClearStep /\ C17_StatsStep]_vars
  /\ []C17_OnlyLaterSetsCount

\* An entry with a pending expiration was cleared, and stats() reported
\* size 0 afterwards.
C17_Witness ==
  /\ Len(ops) = 3
  /\ ops[1].op = "set" /\ PositiveTtl(ops[1])
  /\ ops[2].op = "clear"
  /\ ops[3].op = "stats" /\ ops[3].ret.size = 0
  /\ scheduled = {}
  /\ DOMAIN cache = {}

\* C18: a get, has or stats call changes neither the stored entries nor the
\* pending expirations, the time left on them included, and returns what is
\* stored: reading a key does not postpone or cancel its expiration.
C18_ReadsChangeNothing ==
  [][CallMade /\ LastCall.op \in {"get", "has", "stats"} =>
       /\ UNCHANGED <<cache, timers, scheduled, nextTimer, written>>
       /\ LastCall.op = "get" =>
            LastCall.ret = IF LastCall.key \in DOMAIN cache
                           THEN cache[LastCall.key] ELSE Undefined
       /\ LastCall.op = "has" =>
            LastCall.ret = IF LastCall.key \in DOMAIN cache THEN True ELSE False
       /\ LastCall.op = "stats" =>
            /\ LastCall.ret.size = Cardinality(DOMAIN cache)
            /\ LastCall.ret.keys = DOMAIN cache]_vars

\* A key set with a ttl was read before the ttl had elapsed and found, and
\* read again when the ttl had elapsed, counted from the set, and not found.
C18_Witness ==
  \E k \in CacheKeys :
    /\ Len(ops) = 3
    /\ ops[1].op = "set" /\ ops[1].key = k /\ ops[1].ttl = Num(50)
    /\ ops[2].op = "get" /\ ops[2].key = k /\ ops[2].ret = ops[1].value
    /\ ops[3].op = "get" /\ ops[3].key = k /\ ops[3].ret = Undefined
    /\ written[k].age = 50

\* C19: isValidCity accepts a raw record if and only if it is an object,
\* its name is present and non-empty, its pollution is neither undefined nor
\* null, and the name and the pollution predicates hold; the verdict is the
\* same whatever the country field holds.
C19_ClassifyGate ==
  validated.fn = "isValidCity" =>
    LET entry == validated.arg
    IN /\ validated.ret <=>
            /\ entry.t = "obj"
            /\ entry.name \notin {Undefined, Null, Str(<<>>)}
            /\ entry.pollution \notin {Undefined, Null}
            /\ isValidCityName(entry.name)
            /\ isValidPollutionValue(entry.pollution)
       /\ entry.t = "obj" =>
            \A country \in RawCountries :
              isValidCity([entry EXCEPT !.country = country]) = validated.ret

\* A record was accepted whose country fails the country predicate: a code
\* of two capitals that is not in the list.
C19_Witness ==
  /\ validated.fn = "isValidCity"
  /\ validated.ret
  /\ validated.arg.country = Str(<<"X","X">>)
  /\ ~isValidCountry(validated.arg.country)
  /\ isValidCountry(Str(<<"N","O">>))

\* A string without white space at its ends.
IsTrimmed(s) == s = <<>> \/ (~IsSpace(s[1]) /\ ~IsSpace(s[Len(s)]))

\* C20: every record filterValidCities returns is a normalized city: name a
\* trimmed string of 1 to 100 characters, country a trimmed string,
\* pollution a finite number within [0, 1000].
C20_ReturnsNormalizedCities ==
  validated.fn = "filterValidCities" =>
    \A i \in 1..Len(validated.ret) :
      LET city == validated.ret[i]
      IN /\ city.name.t = "str"
         /\ IsTrimmed(city.name.s)
         /\ Len(city.name.s) >= 1 /\ Len(city.name.s) <= 100
         /\ city.country.t = "str"
         /\ IsTrimmed(city.country.s)
         /\ city.pollution.t = "num"
         /\ ~Less(city.pollution, Normal(0, 1))
         /\ ~Less(Normal(1000, 1), city.pollution)

\* What the code returns for a record whose pollution is true: the record is
\* accepted, and its pollution is NaN.
C20_BooleanBecomesNaN ==
  /\ validated.fn = "filterValidCities"
  /\ validated.arg = Arr(<<EntryFlag>>)
  /\ validated.ret = <<[name |-> Str(Oslo), country |-> Str(Norway),
                        pollution |-> NaN]>>

\* A string that is a decimal literal as a whole, white space around it
\* aside: an optional sign, digits, and at most a point with digits.
IsNumericString(x) ==
  /\ x.t = "str"
  /\ LET s == trim(x.s)
         p == IF s # <<>> /\ s[1] \in {"+", "-"} THEN 2 ELSE 1
         point == {i \in p..Len(s) : s[i] = "."}
     IN /\ Cardinality(point) <= 1
        /\ \A i \in p..Len(s) : IsDigit(s[i]) \/ s[i] = "."
        /\ \E i \in p..Len(s) : IsDigit(s[i])

\* The pollution value is a number, or a numeric string, and what it stands
\* for lies within [0, 1000].
PollutionWithinRange(x) ==
  /\ x.t = "num" \/ IsNumericString(x)
  /\ ~Less(ToNumber(x), Normal(0, 1))
  /\ ~Less(Normal(1000, 1), ToNumber(x))

\* The pollution value is NaN or infinite, or a number or a numeric string
\* that stands for a value below 0 or above 1000.
PollutionOutsideRange(x) ==
  \/ x.t \in {"nan", "inf"}
  \/ /\ x.t = "num" \/ IsNumericString(x)
     /\ Less(ToNumber(x), Normal(0, 1)) \/ Less(Normal(1000, 1), ToNumber(x))

\* C21: for a record with a valid name, isValidCity accepts every pollution
\* value within [0, 1000], the bounds 0 and 1000 included, given as a number
\* or as a numeric string, and rejects every value below 0 or above 1000
\* (such as -0.1 and 1000.1), NaN and the infinite values.
C21_PollutionRange ==
  /\ validated.fn = "isValidCity"
  /\ validated.arg.t = "obj"
  /\ TruthyValue(validated.arg.name)
  /\ isValidCityName(validated.arg.name)
  => /\ PollutionWithinRange(validated.arg.pollution) => validated.ret
     /\ PollutionOutsideRange(validated.arg.pollution) => ~validated.ret

\* A record with a valid name and the pollution "1000", a numeric string
\* on the upper bound, was accepted.
C21_Witness ==
  /\ validated.fn = "isValidCity"
  /\ validated.arg.t = "obj"
  /\ validated.arg.name = Str(Berlin)
  /\ validated.arg.pollution = Str(<<"1","0","0","0">>)
  /\ PollutionWithinRange(validated.arg.pollution)
  /\ PollutionOutsideRange(Str(<<"1","0","0","0",".","1">>))
  /\ PollutionOutsideRange(Dec(0 - 1))
  /\ validated.ret

\* A summary answer with an extract has been settled.
ExtractSettled ==
  /\ summarized.settle.how = "resolve"
  /\ summarized.resp.extract.t = "str"
  /\ summarized.settle.value.t = "str"

\* The places of the periods of a text, and the greatest of a set of places.
PeriodsIn(s) == {i \in 1..Len(s) : s[i] = "."}
Last(places) == CHOOSE i \in places : \A j \in places : j <= i

Ellipsis == <<".", ".", ".">>

\* C22, as claimed: a description longer than 300 characters is cut at the
\* last period that lies before character 200 when there is one, the period
\* kept, and only without such a period cut at 300 characters with "..."
\* appended; a description of at most 300 characters is returned unchanged.
C22_CutBeforeFloor ==
  ExtractSettled =>
    LET text == summarized.resp.extract.s
        ret == summarized.settle.value.s
        early == {i \in PeriodsIn(text) : i < SentenceFloor}
    IN IF Len(text) > ExtractLimit
       THEN IF early # {}
            THEN ret = SubSeq(text, 1, Last(early))
            ELSE ret = SubSeq(text, 1, ExtractLimit) \o Ellipsis
       ELSE ret = text

\* C22, amended: the description is trimmed first; when more than 300
\* characters are left, its first 300 characters are taken and trimmed
\* again, and that head is cut behind its last period when more than 200
\* characters precede that period (the period is kept), otherwise "..." is
\* appended to the head, whatever periods lie before; a description of at
\* most 300 characters after trimming is returned trimmed.
C22_CutAfterFloor ==
  ExtractSettled =>
    LET text == trim(summarized.resp.extract.s)
        ret == summarized.settle.value.s
        head == trim(SubSeq(text, 1, ExtractLimit))
        late == {i \in PeriodsIn(head) : i - 1 > SentenceFloor}
    IN IF Len(text) > ExtractLimit
       THEN IF late # {}
            THEN ret = SubSeq(head, 1, Last(late))
            ELSE ret = head \o Ellipsis
       ELSE ret = text

\* A description of more than 300 characters with a period before character
\* 200 and one behind it was cut behind the later one.
C22_Witness ==
  /\ ExtractSettled
  /\ LET text == summarized.resp.extract.s
     IN /\ Len(text) = MaxExtract
        /\ PeriodsIn(text) = {SentenceFloor - 50, SentenceFloor + 50}
        /\ summarized.settle.value.s = SubSeq(text, 1, SentenceFloor + 50)

\* While lookups wait in the backlog, a drain loop is running.
C23_BacklogHasLoop ==
  Len(requestQueue) > 0 => isProcessing /\ Len(loops) >= 1

\* Every lookup pushed on the backlog has been sent, in the order of the
\* pushes, and has settled its caller.
LookupsSettled ==
  /\ Len(dispatched) = Len(enqueued)
  /\ \A n \in 1..Len(enqueued) :
       /\ Lookup(dispatched[n]) = enqueued[n]
       /\ Len(calls[enqueued[n].call].outs) >= enqueued[n].idx

\* Nothing is left to do: the lookups are settled, every describe call made
\* has returned, no loop runs and the processing flag is cleared.
Quiescent ==
  /\ LookupsSettled
  /\ \A c \in 1..Len(calls) : calls[c].pc = "done"
  /\ requestQueue = <<>>
  /\ loops = <<>>
  /\ ~isProcessing

\* C23: when every outbound request completes or fails, every lookup pushed
\* on the backlog is sent and settles its caller, every describe call
\* returns, and the processing flag is cleared again once the backlog is
\* empty and the last pacing delay is over: the service comes to rest after
\* the last of the calls its clients make.  And the backlog is never
\* non-empty while no drain loop runs.
C23_BacklogDrains ==
  /\ []C23_BacklogHasLoop
  /\ <>[]Quiescent

\* Two describe calls, the second made while the first was pending, have
\* both returned after all their lookups failed or found nothing; the
\* backlog is empty, the last pacing delay is over and the flag is cleared.
C23_Witness ==
  /\ Len(calls) = 2
  /\ 1 \in calls[2].live
  /\ \A c \in 1..2 : calls[c].pc = "done" /\ Len(calls[c].outs) = 3
  /\ Len(dispatched) = 6
  /\ Len(enqueued) = 6
  /\ requestQueue = <<>>
  /\ loops = <<>>
  /\ ~isProcessing

\* Key k holds a description, with the timeout of its 24 hours pending.
DescriptionCached(k) ==
  /\ k \in DOMAIN cache
  /\ Truthy(cache[k])
  /\ written[k].ttl = Num(DescriptionTtl)
  /\ \E tm \in scheduled :
       /\ tm.key = k
       /\ tm.id = timers[k]
       /\ tm.left + written[k].age = DescriptionTtl

\* C24: once a describe call has cached a description under a key, no other
\* describe call for the key, one that was in progress and ends without a
\* result included, replaces it with the negative result or shortens its
\* lifetime: the key holds a description, with 24 hours from its last write,
\* until those 24 hours have elapsed.
C24_DescriptionStays ==
  [][\A k \in DOMAIN cache :
       DescriptionCached(k) =>
         \/ DescriptionCached(k)'
         \/ k \notin DOMAIN cache' /\ written[k].age = DescriptionTtl]_vars

\* What the code does: a call that was in progress when another call for
\* the key cached its description, and whose three lookups ended without
\* one, has just written the negative result over the description, with a
\* lifetime of one hour.
C24_NegativeOverwrites ==
  \E c1, c2 \in 1..Len(calls) :
    /\ c1 # c2
    /\ calls[c1].key = calls[c2].key
    /\ calls[c1].pc = "done" /\ Truthy(calls[c1].result)
    /\ calls[c1].outs # <<>>
    /\ calls[c2].pc = "done" /\ calls[c2].result = Null
    /\ Len(calls[c2].outs) = 3
    /\ cache[calls[c1].key] = Null
    /\ written[calls[c1].key].ttl = Num(NegativeTtl)
    /\ written[calls[c1].key].age = 0

\* The earlier requests that built a response for the page and limit of
\* request r, for another country filter than that of r.
BuiltForOtherCountry(r) ==
  {q \in 1..Len(pages) :
     /\ q < r
     /\ ~pages[q].hit
     /\ pages[q].pc = "done" /\ pages[q].status = 200
     /\ pages[q].page = pages'[r].page
     /\ pages[q].limit = pages'[r].limit
     /\ pages[q].country # pages'[r].country}

\* The GET /pollution requests sent for a page, a limit and a country.
FetchesFor(page, limit, country) ==
  {i \in 1..Len(sent) :
     /\ sent[i].kind = "get"
     /\ sent[i].page = page /\ sent[i].limit = limit
     /\ sent[i].country = country}

\* C25: the page cache is keyed by page and limit only. A request made
\* while the response an earlier request built for the same page and limit
\* and another country filter is in the cache (within its 10 minutes)
\* receives that cached response, and nothing is sent to the pollution
\* source for its country.
C25_CountryNotInKey ==
  [][\A r \in 1..Len(pages') :
       r > Len(pages) =>
         \A q \in BuiltForOtherCountry(r) :
           /\ pages[q].key \in DOMAIN cache
           /\ cache[pages[q].key] = pages[q].body
           => /\ written[pages[q].key].age <= PageTtl
              /\ pages'[r].hit
              /\ pages'[r].pc = "done" /\ pages'[r].status = 200
              /\ pages'[r].body = pages[q].body
              /\ sent' = sent
              /\ token' = token]_vars

\* A request without country filter built the response of page 1 with limit
\* 2; a request for Norway, same page and limit, made some minutes later,
\* was answered with that response, and no GET /pollution for Norway was
\* ever sent.
C25_Witness ==
  /\ Len(pages) = 2
  /\ ~pages[1].hit /\ pages[1].status = 200
  /\ pages[1].country = Undefined
  /\ pages[2].hit /\ pages[2].status = 200
  /\ pages[2].country = Str(Norway)
  /\ pages[2].page = pages[1].page /\ pages[2].limit = pages[1].limit
  /\ pages[2].body = pages[1].body
  /\ written[pages[1].key].age > 0
  /\ FetchesFor(pages[2].page, pages[2].limit, Str(Norway)) = {}
  /\ FetchesFor(pages[1].page, pages[1].limit, Undefined) # {}

\* The places of the set calls of key k in the history, and the last one.
SetsOf(k) == {i \in 1..Len(ops) : ops[i].op = "set" /\ ops[i].key = k}
LastSetOf(k) == CHOOSE i \in SetsOf(k) : \A j \in SetsOf(k) : j <= i

\* The id of the timeout the set call at place i scheduled: the timeouts are
\* numbered in the order of the sets that schedule one.
TimerOfSet(i) ==
  Cardinality({j \in 1..i : ops[j].op = "set" /\ ttlGiven(ops[j].ttl)})

\* C26: after any sequence of set, delete, clear and expirations, every key
\* with a pending timeout is in the cache, a key has one pending timeout at
\* most, and that timeout is the one the most recent set of the key
\* scheduled, running since that set; the timers map holds the pending
\* timeouts and nothing else.
C26_TimersMatchEntries ==
  /\ \A tm \in scheduled : tm.key \in DOMAIN cache
  /\ \A k \in CacheKeys : Cardinality(PendingOf(k)) <= 1
  /\ DOMAIN timers = {tm.key : tm \in scheduled}
  /\ \A tm \in scheduled :
       /\ timers[tm.key] = tm.id
       /\ SetsOf(tm.key) # {}
       /\ ttlGiven(ops[LastSetOf(tm.key)].ttl)
       /\ tm.id = TimerOfSet(LastSetOf(tm.key))
       /\ cache[tm.key] = ops[LastSetOf(tm.key)].value
       /\ tm.left + written[tm.key].age = timerDelay(ops[LastSetOf(tm.key)].ttl)

\* A key was set with a ttl, set again with a ttl some time later, and the
\* other key set and expired: the one pending timeout is that of the second
\* set of the key, some time after it.
C26_Witness ==
  \E k \in CacheKeys :
    /\ Len(ops) = 3
    /\ Cardinality(SetsOf(k)) = 2
    /\ \A i \in 1..3 : ops[i].op = "set" /\ ops[i].ttl = Num(50)
    /\ DOMAIN cache = {k}
    /\ \E tm \in scheduled :
         /\ scheduled = {tm}
         /\ tm.key = k
         /\ tm.id = TimerOfSet(LastSetOf(k))
         /\ tm.left < 50
         /\ tm.left > 0

====
